---- MODULE Spec2Model ----
(***************************************************************************)
(* Model of the S3 client library (ShelbyKS/s3-client):                    *)
(*   - the multiplexed HTTP backend (src/src/http/http_multi.c): caller     *)
(*     threads in s3_http_multi_submit_and_wait, the worker thread          *)
(*     s3_multi_thread_main and s3_http_multi_destroy, synchronised by one  *)
(*     mutex and one condition variable;                                    *)
(*   - the error mapping (src/src/error.c, src/src/http/http_easy.c);       *)
(*   - the client facade (src/src/client.c) on top of the two backends.     *)
(***************************************************************************)
EXTENDS Integers, Sequences, FiniteSets, TLC

(* ------------------------------ bounds --------------------------------- *)

\* number of caller threads submitting to one multiplexed backend
NCallers == 2
\* number of submit-and-wait calls each caller thread may start
MaxCalls == 1

Callers == 1..NCallers

(* ------------------------- error kinds and records --------------------- *)

S3_E_OK == "S3_E_OK"
S3_E_INVALID_ARG == "S3_E_INVALID_ARG"
S3_E_NOMEM == "S3_E_NOMEM"
S3_E_INIT == "S3_E_INIT"
S3_E_CURL == "S3_E_CURL"
S3_E_HTTP == "S3_E_HTTP"
S3_E_IO == "S3_E_IO"
S3_E_TIMEOUT == "S3_E_TIMEOUT"
S3_E_NOT_FOUND == "S3_E_NOT_FOUND"
S3_E_AUTH == "S3_E_AUTH"
S3_E_ACCESS_DENIED == "S3_E_ACCESS_DENIED"
S3_E_INTERNAL == "S3_E_INTERNAL"

\* errno value stored in os_error by the out-of-memory paths
ENOMEM == 12

\* libcurl result codes (CURLcode) the mapping distinguishes, and three others
CURLE_OK == 0
CURLE_COULDNT_RESOLVE_HOST == 6
CURLE_COULDNT_CONNECT == 7
CURLE_WRITE_ERROR == 23
CURLE_READ_ERROR == 26
CURLE_OPERATION_TIMEDOUT == 28
CURLE_SSL_CONNECT_ERROR == 35
CURLE_GOT_NOTHING == 52
CURLE_RECV_ERROR == 56

\* libcurl multi result codes (CURLMcode)
CURLM_OK == 0
CURLM_OUT_OF_MEMORY == 3

\* the null pointer of the pending list (request ids are 1..NCallers)
NULL == 0

\* s3_error_clear: all fields zero, code OK, empty message
s3_error_clear ==
    [code |-> S3_E_OK, http_status |-> 0, curl_code |-> 0, os_error |-> 0,
     message |-> ""]

\* s3_error_set(err, code, msg, os_error, http_status, curl_code)
s3_error_set(code, msg, os_error, http_status, curl_code) ==
    [code |-> code, http_status |-> http_status, curl_code |-> curl_code,
     os_error |-> os_error, message |-> msg]

\* S3_ERROR_INIT
S3_ERROR_INIT == s3_error_clear

(* --------------------------- error mapping ----------------------------- *)

\* src/src/error.c: transport result -> kind (used by the multiplexed backend)
s3_http_map_curl_error(cc) ==
    IF cc = CURLE_OK THEN S3_E_OK
    ELSE CASE cc = CURLE_OPERATION_TIMEDOUT -> S3_E_TIMEOUT
           [] cc \in {CURLE_COULDNT_RESOLVE_HOST, CURLE_COULDNT_CONNECT} -> S3_E_INIT
           [] cc \in {CURLE_READ_ERROR, CURLE_WRITE_ERROR} -> S3_E_IO
           [] OTHER -> S3_E_CURL

\* a mapping that takes 401 for ACCESS_DENIED and 403 for AUTH
s3_http_map_http_status_swapped(status) ==
    IF status >= 200 /\ status < 300 THEN S3_E_OK
    ELSE IF status = 404 THEN S3_E_NOT_FOUND
    ELSE IF status = 401 THEN S3_E_ACCESS_DENIED
    ELSE IF status = 403 THEN S3_E_AUTH
    ELSE IF status = 408 THEN S3_E_TIMEOUT
    ELSE S3_E_HTTP

\* src/src/error.c: HTTP status -> kind (used by the multiplexed backend)
s3_http_map_http_status(status) ==
    IF status >= 200 /\ status < 300 THEN S3_E_OK
    ELSE IF status = 404 THEN S3_E_NOT_FOUND
    ELSE IF status = 403 THEN S3_E_ACCESS_DENIED
    ELSE IF status = 401 THEN S3_E_AUTH
    ELSE IF status = 408 THEN S3_E_TIMEOUT
    ELSE S3_E_HTTP

\* src/src/http/http_easy.c: the sync backend's private copy of the mapping
s3_http_easy_map_curl_error(cc) ==
    IF cc = CURLE_OK THEN S3_E_OK
    ELSE CASE cc = CURLE_OPERATION_TIMEDOUT -> S3_E_TIMEOUT
           [] cc \in {CURLE_COULDNT_RESOLVE_HOST, CURLE_COULDNT_CONNECT} -> S3_E_INIT
           [] cc \in {CURLE_READ_ERROR, CURLE_WRITE_ERROR} -> S3_E_IO
           [] OTHER -> S3_E_CURL

\* src/src/http/http_easy.c: the sync backend's private copy of the mapping
s3_http_easy_map_http_status(status) ==
    IF status >= 200 /\ status < 300 THEN S3_E_OK
    ELSE IF status = 404 THEN S3_E_NOT_FOUND
    ELSE IF status = 403 THEN S3_E_ACCESS_DENIED
    ELSE IF status = 401 THEN S3_E_AUTH
    ELSE IF status = 408 THEN S3_E_TIMEOUT
    ELSE S3_E_HTTP

\* A transport outcome of one request: the CURLcode of the transfer, the HTTP
\* status the server sent (0 when the transfer failed before a status line)
\* and whether curl_easy_getinfo(CURLINFO_RESPONSE_CODE) succeeds.  libcurl
\* answers that query with CURLE_OK for every valid handle, so the outcomes
\* the transport produces all carry info_ok = TRUE.
Outcome(cc, status) == [cc |-> cc, status |-> status, info_ok |-> TRUE]

\* s3_http_easy_perform: (code, error record) the sync backend delivers
s3_http_easy_perform(o) ==
    LET code == s3_http_easy_map_curl_error(o.cc) IN
    IF o.cc # CURLE_OK
    THEN [code |-> code,
          err |-> s3_error_set(code, "curl_easy_strerror", 0, 0, o.cc)]
    ELSE IF ~o.info_ok
    THEN [code |-> S3_E_INTERNAL,
          err |-> s3_error_set(S3_E_INTERNAL, "Failed to get HTTP response code",
                               0, 0, 0)]
    ELSE LET code2 == s3_http_easy_map_http_status(o.status) IN
         IF code2 # S3_E_OK
         THEN [code |-> code2,
               err |-> s3_error_set(code2, "HTTP status %ld", 0, o.status, 0)]
         ELSE [code |-> S3_E_OK,
               err |-> [s3_error_clear EXCEPT !.http_status = o.status]]

\* s3_multi_backend_process_done, lines 140-158: what the worker derives from
\* one CURLMSG_DONE message before it takes the mutex
process_done_derive(o) ==
    IF o.cc = CURLE_OK
    THEN IF o.info_ok
         THEN LET code == s3_http_map_http_status(o.status) IN
              [code |-> code, http_status |-> o.status, cc |-> o.cc,
               buf |-> IF code # S3_E_OK THEN "HTTP status %ld" ELSE ""]
         ELSE [code |-> S3_E_INTERNAL, http_status |-> 0, cc |-> o.cc,
               buf |-> "Failed to get HTTP response code"]
    ELSE [code |-> s3_http_map_curl_error(o.cc), http_status |-> 0, cc |-> o.cc,
          buf |-> "curl_easy_strerror"]

\* s3_multi_backend_process_done, lines 164-176: the fields written into the
\* completion record under the mutex
process_done_publish(rq, d) ==
    [rq EXCEPT !.http_status = d.http_status,
               !.curl_code = d.cc,
               !.err = IF d.code = S3_E_OK THEN s3_error_clear
                       ELSE s3_error_set(d.code, d.buf, 0, d.http_status, d.cc),
               !.code = d.code,
               !.done = TRUE]


(* ===================== multiplexed backend: state ====================== *)

VARIABLES
    \* struct s3_http_multi_backend
    stop,               \* mb->stop
    pending_head,       \* mb->pending_head (request id or NULL)
    pending_tail,       \* mb->pending_tail
    running,            \* mb->running
    mutex,              \* owner of mb->mutex
    sleeping,           \* threads blocked inside pthread_cond_wait(&mb->cond)
    multi,              \* mb->multi: per request, its state inside the CURLM
    mb_alive,           \* FALSE once s3_http_multi_destroy has freed mb
    \* struct s3_client
    max_total_connections,
    \* struct s3_multi_req of each caller's call in progress
    req,
    \* control state of the threads
    cpc,                \* callers, inside s3_http_multi_submit_and_wait
    wpc,                \* worker, inside s3_multi_thread_main
    dpc,                \* thread running s3_http_multi_destroy
    cur,                \* worker locals of s3_multi_backend_process_done
    still_running,      \* worker local of s3_multi_thread_main
    pd_pass,            \* which of the two process_done calls of one iteration
    calls,              \* calls each caller has started
    ret,                \* what each caller's latest call returned
    \* history (what has happened to each caller's current record)
    hist,
    nAccepted,          \* submissions appended to the pending queue
    nMarked,            \* records the worker marked done
    nDelivered          \* accepted submissions whose caller has returned

VARIABLES
    \* client facade (src/src/client.c)
    last_error,         \* client->last_error
    f_ret,              \* kind returned by the latest facade call
    f_err,              \* error record handed to the caller of that call
    f_path,             \* operation and path taken by that call
    f_n,                \* facade calls made
    f_backend,          \* client->backend: which vtable the client was built with
    \* mapping of one finished request
    m_in,
    m_out

VARIABLES
    \* one prepared request and its transfer (src/src/http/curl_easy_factory.c)
    easy_h,             \* struct s3_easy_handle: read_io, write_io, totals, buffers
    xfer,               \* what libcurl is doing with the handle
    io_log,             \* the callback invocations made so far
    io_ret              \* what the backend operation returned

VARIABLES
    \* creation and destruction of one client (src/src/client.c)
    new_opts,           \* the s3_client_opts_t handed to s3_client_new
    heap,               \* per block: times allocated, times freed
    out_client,         \* the caller's *out_client
    worker_thread,      \* the multi backend's thread exists
    new_ret,            \* what s3_client_new returned
    client_phase        \* "none", "live" or "deleted"

VARIABLES
    \* one delete_objects call (src/src/http/http_util.c, the two backends)
    del_opts,           \* s3_delete_objects_opts_t: objects, count, quiet
    del_backend,        \* the backend the client was built with
    del_body,           \* h->owned_body as built by s3_build_delete_body
    del_sent,           \* "none", "performed" (sync) or "enqueued" (multi)
    del_ret             \* what the backend's delete_objects returned

VARIABLES
    \* one ListObjectsV2 response and its result (src/src/http/parser.c)
    p_in,               \* the response document and the allocation that fails
    p_out,              \* the caller's s3_list_objects_result_t
    p_heap,             \* the blocks obtained so far: times freed, contents
    p_ret,              \* what list_objects returned
    p_err,              \* the error record it filled
    p_failed,           \* an allocation failed during the parse
    p_destroys          \* calls of s3_list_objects_result_destroy made

VARIABLES
    \* whole operations on the multiplexed backend (src/src/http/http_multi.c)
    handle,             \* per caller: the prepared request h of its operation
    enq_log,            \* the requests in the order they were appended
    reg_log             \* the requests in the order the worker took them off

VARIABLES
    \* one put_fd or get_fd call and its arguments (both backends)
    a_in,               \* operation, backend, fd, size, bucket, key, client
    a_out               \* what the call returned and how far it got

mvars == <<stop, pending_head, pending_tail, running, mutex, sleeping, multi,
           mb_alive, max_total_connections, req, cpc, wpc, dpc, cur,
           still_running, pd_pass, calls, ret, hist, nAccepted, nMarked,
           nDelivered>>
fvars == <<last_error, f_ret, f_err, f_path, f_n, f_backend>>
pvars == <<m_in, m_out>>
iovars == <<easy_h, xfer, io_log, io_ret>>
cvars == <<new_opts, heap, out_client, worker_thread, new_ret, client_phase>>
dvars == <<del_opts, del_backend, del_body, del_sent, del_ret>>
lvars == <<p_in, p_out, p_heap, p_ret, p_err, p_failed, p_destroys>>
ovars == <<handle, enq_log, reg_log>>
avars == <<a_in, a_out>>
xvars == <<iovars, cvars, dvars, lvars, ovars, avars>>
vars == <<mvars, fvars, pvars, xvars>>

\* thread identities (owner of the mutex, members of the wait set)
NoThread == <<"none", 0>>
WorkerThread == <<"worker", 0>>
DestroyThread == <<"destroy", 0>>
CallerThread(c) == <<"caller", c>>

\* outcomes the transport produces in the concurrent model
XferOutcomes == {Outcome(CURLE_OK, 200), Outcome(CURLE_OK, 404)}

\* values of opts->max_total_connections a client is created with (0: default)
OptsMaxTotalConnections == {0, 1}

\* s3_client_init_defaults: max_total_connections
s3_client_init_defaults_max_total(opt) == IF opt > 0 THEN opt ELSE 64

NoReq ==
    [live |-> FALSE, next |-> NULL, easy_ok |-> FALSE, err |-> s3_error_clear,
     code |-> S3_E_OK, http_status |-> 0, curl_code |-> 0, done |-> FALSE]

\* a record that starts out marked done
s3_multi_req_init_done(easy_ok) ==
    [live |-> TRUE, next |-> NULL, easy_ok |-> easy_ok, err |-> s3_error_clear,
     code |-> S3_E_OK, http_status |-> 0, curl_code |-> 0, done |-> TRUE]

\* s3_multi_req_init(req, easy): memset 0, easy, cleared error, code OK
s3_multi_req_init(easy_ok) ==
    [live |-> TRUE, next |-> NULL, easy_ok |-> easy_ok, err |-> s3_error_clear,
     code |-> S3_E_OK, http_status |-> 0, curl_code |-> 0, done |-> FALSE]

NoOutcome == Outcome(CURLE_OK, 0)
NoXfer == [st |-> "none", o |-> NoOutcome]
NoCur == [r |-> NULL, code |-> S3_E_OK, http_status |-> 0, cc |-> CURLE_OK, buf |-> ""]
NoRet == [code |-> "none", err |-> s3_error_clear]
NoHist ==
    [accepted |-> FALSE, dequeued |-> FALSE, registered |-> FALSE, marks |-> 0,
     doneBy |-> "none", wrote |-> NoRet]

\* initial values of the variables of the other parts of the model
FacadeIdle ==
    /\ last_error = S3_ERROR_INIT
    /\ f_ret = "none"
    /\ f_err = S3_ERROR_INIT
    /\ f_path = <<"none", "none">>
    /\ f_n = 0
    /\ f_backend = "none"
MapIdle ==
    /\ m_in = [backend |-> "none", o |-> NoOutcome]
    /\ m_out = NoRet

\* s3_easy_io_init_none
s3_easy_io_init_none == [kind |-> "S3_IO_NONE", size_limit |-> 0, offset |-> 0]

\* no prepared request exists
NoHandle ==
    [op |-> "none", read_io |-> s3_easy_io_init_none,
     write_io |-> s3_easy_io_init_none, read_bytes_total |-> 0,
     write_bytes_total |-> 0, owned_body_size |-> 0, owned_resp_size |-> 0]
NoTransfer ==
    [phase |-> "none", announced |-> 0, body_len |-> 0, uploaded |-> 0,
     delivered |-> 0]
NoIORet == [code |-> "none", bytes_written |-> 0]
IOIdle ==
    /\ easy_h = NoHandle
    /\ xfer = NoTransfer
    /\ io_log = <<>>
    /\ io_ret = NoIORet

\* the blocks s3_client_new obtains: the client, its strings in the order
\* they are copied, the backend and the backend's CURLM
StringOrder ==
    <<"endpoint", "region", "access_key", "secret_key", "session_token",
      "default_bucket", "ca_file", "ca_path", "proxy">>
Strings == {StringOrder[i] : i \in 1..Len(StringOrder)}
Blocks == {"client", "backend", "curlm"} \cup Strings
NoOpts == [required_ok |-> TRUE, optional |-> {}, backend |-> "none"]
NoHeap == [b \in Blocks |-> [allocs |-> 0, frees |-> 0]]
NewIdle ==
    /\ new_opts = NoOpts
    /\ heap = NoHeap
    /\ out_client = "unchanged"
    /\ worker_thread = FALSE
    /\ new_ret = "none"
    /\ client_phase = "none"

\* a C string: the NULL pointer, or its characters
NullStr == [null |-> TRUE, chars |-> <<>>]
Str(chars) == [null |-> FALSE, chars |-> chars]
NoDelOpts == [objects_null |-> TRUE, objects |-> <<>>, quiet |-> FALSE]
DelIdle ==
    /\ del_opts = NoDelOpts
    /\ del_backend = "none"
    /\ del_body = <<>>
    /\ del_sent = "none"
    /\ del_ret = "none"

\* memset(out, 0, sizeof(*out)): no array, no objects, no token
ZeroResult ==
    [objects |-> NULL, items |-> <<>>, count |-> 0, is_truncated |-> FALSE,
     next_continuation_token |-> NULL]
NoDoc ==
    [truncated |-> "absent", token |-> FALSE, blocks |-> <<>>,
     last_complete |-> TRUE, fail |-> 0]
ListIdle ==
    /\ p_in = NoDoc
    /\ p_out = ZeroResult
    /\ p_heap = <<>>
    /\ p_ret = "none"
    /\ p_err = S3_ERROR_INIT
    /\ p_failed = FALSE
    /\ p_destroys = 0

\* initial values of the variables of the parts a specification leaves alone
\* no operation has prepared a request yet
NoEasy ==
    [pc |-> "none", created |-> FALSE, live |-> FALSE, destroys |-> 0,
     submits |-> 0, ops |-> 0, factory |-> "none", failed |-> FALSE]

OpsIdle ==
    /\ handle = [c \in Callers |-> NoEasy]
    /\ enq_log = <<>>
    /\ reg_log = <<>>

NoArgs ==
    [op |-> "none", backend |-> "none", fd |-> 0, size |-> 0,
     bucket |-> NullStr, key |-> NullStr, default_bucket |-> NullStr,
     alloc_ok |-> TRUE, o |-> NoOutcome]
NoArgsOut ==
    [code |-> "none", err |-> S3_ERROR_INIT, built |-> FALSE, url |-> <<>>,
     performed |-> FALSE, destroyed |-> FALSE]

ArgsIdle ==
    /\ a_in = NoArgs
    /\ a_out = NoArgsOut

ExtIdle == IOIdle /\ NewIdle /\ DelIdle /\ ListIdle /\ OpsIdle /\ ArgsIdle

\* state after s3_http_multi_backend_new: worker thread created, nothing queued
MultiInit(opts_max_total_connections) ==
    /\ stop = FALSE
    /\ pending_head = NULL
    /\ pending_tail = NULL
    /\ running = 0
    /\ mutex = NoThread
    /\ sleeping = {}
    /\ multi = [c \in Callers |-> NoXfer]
    /\ mb_alive = TRUE
    /\ max_total_connections \in
          {s3_client_init_defaults_max_total(o) : o \in opts_max_total_connections}
    /\ req = [c \in Callers |-> NoReq]
    /\ cpc = [c \in Callers |-> "idle"]
    /\ wpc = "top"
    /\ dpc = "idle"
    /\ cur = NoCur
    /\ still_running = 0
    /\ pd_pass = 1
    /\ calls = [c \in Callers |-> 0]
    /\ ret = [c \in Callers |-> NoRet]
    /\ hist = [c \in Callers |-> NoHist]
    /\ nAccepted = 0
    /\ nMarked = 0
    /\ nDelivered = 0

\* a client created with the default options
Init == MultiInit({0}) /\ FacadeIdle /\ MapIdle /\ ExtIdle

\* a client created with any of the max_total_connections options
InitConn == MultiInit(OptsMaxTotalConnections) /\ FacadeIdle /\ MapIdle /\ ExtIdle

(* ============ multiplexed backend: s3_http_multi_submit_and_wait ======== *)

\* a broadcast that wakes nobody
s3_multi_backend_wakeup_lost(sl) == sl

\* s3_multi_backend_wakeup: pthread_cond_broadcast takes every thread out of
\* the wait set sl of the condition variable
s3_multi_backend_wakeup(sl) == {}

\* a submission that never looks at stop
submit_rejects_never(st) == FALSE

\* line 264: the submission is rejected when stop is set
submit_rejects(st) == st

\* lines 251-258: the completion record cannot be allocated
SubmitNoMem(c) ==
    /\ cpc[c] = "idle" /\ mb_alive /\ calls[c] < MaxCalls
    /\ calls' = [calls EXCEPT ![c] = @ + 1]
    /\ ret' = [ret EXCEPT ![c] =
                 [code |-> S3_E_NOMEM,
                  err |-> s3_error_set(S3_E_NOMEM, "Out of memory in multi backend",
                                       ENOMEM, 0, 0)]]
    /\ hist' = [hist EXCEPT ![c] = NoHist]
    /\ UNCHANGED <<stop, pending_head, pending_tail, running, mutex, sleeping,
                   multi, mb_alive, max_total_connections, req, cpc, wpc, dpc,
                   cur, still_running, pd_pass, nAccepted, nMarked, nDelivered>>

\* lines 251-262: allocate and initialise the record (private to the caller),
\* then pthread_mutex_lock
SubmitAlloc(c) ==
    /\ cpc[c] = "idle" /\ mb_alive /\ calls[c] < MaxCalls
    /\ mutex = NoThread
    /\ mutex' = CallerThread(c)
    /\ calls' = [calls EXCEPT ![c] = @ + 1]
    /\ req' = [req EXCEPT ![c] = s3_multi_req_init(TRUE)]
    /\ ret' = [ret EXCEPT ![c] = NoRet]
    /\ hist' = [hist EXCEPT ![c] = NoHist]
    /\ cpc' = [cpc EXCEPT ![c] = "locked"]
    /\ UNCHANGED <<stop, pending_head, pending_tail, running, sleeping,
                   multi, mb_alive, max_total_connections, wpc, dpc, cur,
                   still_running, pd_pass, nAccepted, nMarked, nDelivered>>

\* lines 264-271: stop is set: unlock, free the record, return INTERNAL
SubmitReject(c) ==
    /\ cpc[c] = "locked" /\ submit_rejects(stop)
    /\ mutex' = NoThread
    /\ req' = [req EXCEPT ![c] = NoReq]
    /\ ret' = [ret EXCEPT ![c] =
                 [code |-> S3_E_INTERNAL,
                  err |-> s3_error_set(S3_E_INTERNAL, "S3 multi backend is stopping",
                                       0, 0, 0)]]
    /\ cpc' = [cpc EXCEPT ![c] = "idle"]
    /\ UNCHANGED <<stop, pending_head, pending_tail, running, sleeping, multi,
                   mb_alive, max_total_connections, wpc, dpc, cur, still_running,
                   pd_pass, calls, hist, nAccepted, nMarked, nDelivered>>

\* lines 273-282: append to the pending list and broadcast
SubmitEnqueue(c) ==
    /\ cpc[c] = "locked" /\ ~submit_rejects(stop)
    /\ IF pending_tail = NULL
       THEN /\ pending_head' = c
            /\ pending_tail' = c
            /\ req' = [req EXCEPT ![c].next = NULL]
       ELSE /\ pending_head' = pending_head
            /\ pending_tail' = c
            /\ req' = [req EXCEPT ![pending_tail].next = c, ![c].next = NULL]
    /\ sleeping' = s3_multi_backend_wakeup(sleeping)
    /\ hist' = [hist EXCEPT ![c].accepted = TRUE]
    /\ nAccepted' = nAccepted + 1
    /\ cpc' = [cpc EXCEPT ![c] = "check"]
    /\ UNCHANGED <<stop, running, mutex, multi, mb_alive, max_total_connections,
                   wpc, dpc, cur, still_running, pd_pass, calls, ret, nMarked,
                   nDelivered>>

\* lines 285-286: done is not set: pthread_cond_wait releases the mutex
SubmitWait(c) ==
    /\ cpc[c] = "check" /\ ~req[c].done
    /\ mutex' = NoThread
    /\ sleeping' = sleeping \cup {CallerThread(c)}
    /\ cpc' = [cpc EXCEPT ![c] = "wait"]
    /\ UNCHANGED <<stop, pending_head, pending_tail, running, multi, mb_alive,
                   max_total_connections, req, wpc, dpc, cur, still_running,
                   pd_pass, calls, ret, hist, nAccepted, nMarked, nDelivered>>

\* line 286: woken by a broadcast, pthread_cond_wait takes the mutex again
SubmitWake(c) ==
    /\ cpc[c] = "wait" /\ CallerThread(c) \notin sleeping /\ mutex = NoThread
    /\ mutex' = CallerThread(c)
    /\ cpc' = [cpc EXCEPT ![c] = "check"]
    /\ UNCHANGED <<stop, pending_head, pending_tail, running, sleeping, multi,
                   mb_alive, max_total_connections, req, wpc, dpc, cur,
                   still_running, pd_pass, calls, ret, hist, nAccepted, nMarked,
                   nDelivered>>

\* lines 285, 289: done observed under the mutex, unlock
SubmitSeeDone(c) ==
    /\ cpc[c] = "check" /\ req[c].done
    /\ mutex' = NoThread
    /\ cpc' = [cpc EXCEPT ![c] = "copy"]
    /\ UNCHANGED <<stop, pending_head, pending_tail, running, sleeping, multi,
                   mb_alive, max_total_connections, req, wpc, dpc, cur,
                   still_running, pd_pass, calls, ret, hist, nAccepted, nMarked,
                   nDelivered>>

\* a call that hands back the values the record was initialised with
submit_result_initial(rq) == [code |-> S3_E_OK, err |-> s3_error_clear]

\* lines 291-299: what the call hands back: *error = req->err; return req->code
submit_result(rq) == [code |-> rq.code, err |-> rq.err]

\* lines 291-299: copy the result out, free the record, return
SubmitReturn(c) ==
    /\ cpc[c] = "copy"
    /\ ret' = [ret EXCEPT ![c] = submit_result(req[c])]
    /\ req' = [req EXCEPT ![c] = NoReq]
    /\ hist' = [hist EXCEPT ![c].accepted = FALSE]
    /\ nDelivered' = nDelivered + 1
    /\ cpc' = [cpc EXCEPT ![c] = "idle"]
    /\ UNCHANGED <<stop, pending_head, pending_tail, running, mutex, sleeping,
                   multi, mb_alive, max_total_connections, wpc, dpc, cur,
                   still_running, pd_pass, calls, nAccepted, nMarked>>


(* ================= multiplexed backend: the worker thread =============== *)

\* the requests on the pending list from h on, in list order
RECURSIVE ListFrom(_, _)
ListFrom(h, rq) ==
    IF h = NULL THEN <<>> ELSE <<h>> \o ListFrom(rq[h].next, rq)

SeqToSet(s) == {s[i] : i \in DOMAIN s}

\* results curl_multi_add_handle may give
AddResults == {CURLM_OK, CURLM_OUT_OF_MEMORY}

\* lines 87-95: the record carries no usable easy handle
flush_invalid(s1, r) ==
    [s1 EXCEPT !.req[r].err =
                  s3_error_set(S3_E_INTERNAL,
                               "Invalid easy handle in multi request", 0, 0, 0),
               !.req[r].code = S3_E_INTERNAL,
               !.req[r].done = TRUE,
               !.woke = TRUE,
               !.order = Append(@, <<r, "invalid">>)]

\* a failed registration that is counted as in flight all the same
flush_add_failed_counted(s1, r, mcr) ==
    [s1 EXCEPT !.req[r].err =
                  s3_error_set(S3_E_CURL, "curl_multi_strerror", 0, 0, mcr),
               !.req[r].code = S3_E_CURL,
               !.req[r].done = TRUE,
               !.running = @ + 1,
               !.woke = TRUE,
               !.order = Append(@, <<r, "addfail">>)]

\* a failed registration that wakes nobody
flush_add_failed_silent(s1, r, mcr) ==
    [s1 EXCEPT !.req[r].err =
                  s3_error_set(S3_E_CURL, "curl_multi_strerror", 0, 0, mcr),
               !.req[r].code = S3_E_CURL,
               !.req[r].done = TRUE,
               !.order = Append(@, <<r, "addfail">>)]

\* lines 102-111: curl_multi_add_handle failed with mcr
flush_add_failed(s1, r, mcr) ==
    [s1 EXCEPT !.req[r].err =
                  s3_error_set(S3_E_CURL, "curl_multi_strerror", 0, 0, mcr),
               !.req[r].code = S3_E_CURL,
               !.req[r].done = TRUE,
               !.woke = TRUE,
               !.order = Append(@, <<r, "addfail">>)]

\* lines 100-102, 113: the handle is now in the CURLM, running++
flush_added(s1, r) ==
    [s1 EXCEPT !.multi[r] = [st |-> "active", o |-> NoOutcome],
               !.running = @ + 1,
               !.order = Append(@, <<r, "added">>)]

\* a drain that leaves pending_tail alone
flush_tail_kept(nxt, tail) == tail

\* lines 82-83: if (mb->pending_head == NULL) mb->pending_tail = NULL
flush_tail(nxt, tail) == IF nxt = NULL THEN NULL ELSE tail

\* s3_multi_backend_flush_pending_locked: the whole while loop.  s holds the
\* fields the loop works on; mc[r] is what curl_multi_add_handle answers for
\* request r; s.woke records that a broadcast happened, s.order the requests
\* in the order they were taken off the list and what became of each.
RECURSIVE s3_multi_backend_flush_pending_locked(_, _)
s3_multi_backend_flush_pending_locked(s, mc) ==
    IF s.head = NULL THEN s
    ELSE
      LET r == s.head
          nxt == s.req[r].next
          s1 == [s EXCEPT !.head = nxt,
                          !.tail = flush_tail(nxt, s.tail),
                          !.req[r].next = NULL]
      IN
      IF ~s1.req[r].easy_ok
      THEN s3_multi_backend_flush_pending_locked(flush_invalid(s1, r), mc)
      ELSE IF mc[r] # CURLM_OK
      THEN s3_multi_backend_flush_pending_locked(flush_add_failed(s1, r, mc[r]), mc)
      ELSE s3_multi_backend_flush_pending_locked(flush_added(s1, r), mc)

\* what the flush did to request c, from the order it reports
FlushFate(order, c) ==
    IF \E i \in DOMAIN order : order[i][1] = c
    THEN (CHOOSE e \in SeqToSet(order) : e[1] = c)[2]
    ELSE "untouched"

\* lines 195-197: the condition of the wait loop
worker_idle(st, head, run) == ~st /\ head = NULL /\ run = 0

\* a worker that leaves as soon as stop is set
worker_finished_on_stop(st, head, run) == st

\* a worker that leaves without looking at the pending list
worker_finished_unseen(st, head, run) == st /\ run = 0

\* line 202: the condition for leaving the loop
worker_finished(st, head, run) == st /\ head = NULL /\ run = 0

\* line 192 (and the return from pthread_cond_wait, line 198): take the mutex
WorkerLock ==
    /\ \/ wpc = "top"
       \/ wpc = "wait" /\ WorkerThread \notin sleeping
    /\ mutex = NoThread
    /\ mutex' = WorkerThread
    /\ wpc' = "locked"
    /\ UNCHANGED <<stop, pending_head, pending_tail, running, sleeping, multi,
                   mb_alive, max_total_connections, req, cpc, dpc, cur,
                   still_running, pd_pass, calls, ret, hist, nAccepted, nMarked,
                   nDelivered>>

\* lines 195-199: nothing to do and not stopping: pthread_cond_wait
WorkerWait ==
    /\ wpc = "locked"
    /\ worker_idle(stop, pending_head, running)
    /\ mutex' = NoThread
    /\ sleeping' = sleeping \cup {WorkerThread}
    /\ wpc' = "wait"
    /\ UNCHANGED <<stop, pending_head, pending_tail, running, multi, mb_alive,
                   max_total_connections, req, cpc, dpc, cur, still_running,
                   pd_pass, calls, ret, hist, nAccepted, nMarked, nDelivered>>

\* lines 202-205: stopping and nothing queued or in flight: leave the loop
WorkerExit ==
    /\ wpc = "locked"
    /\ ~worker_idle(stop, pending_head, running)
    /\ worker_finished(stop, pending_head, running)
    /\ mutex' = NoThread
    /\ wpc' = "exited"
    /\ UNCHANGED <<stop, pending_head, pending_tail, running, sleeping, multi,
                   mb_alive, max_total_connections, req, cpc, dpc, cur,
                   still_running, pd_pass, calls, ret, hist, nAccepted, nMarked,
                   nDelivered>>

\* the state s3_multi_backend_flush_pending_locked starts from
FlushStart ==
    [head |-> pending_head, tail |-> pending_tail, req |-> req,
     running |-> running, multi |-> multi, woke |-> FALSE, order |-> <<>>]

\* lines 208-210 when curl_multi_add_handle answers mc[r] for request r
WorkerFlushWith(mc) ==
    /\ wpc = "locked"
    /\ ~worker_idle(stop, pending_head, running)
    /\ ~worker_finished(stop, pending_head, running)
    /\ LET s == s3_multi_backend_flush_pending_locked(FlushStart, mc)
         IN /\ pending_head' = s.head
            /\ pending_tail' = s.tail
            /\ req' = s.req
            /\ running' = s.running
            /\ multi' = s.multi
            /\ sleeping' = IF s.woke THEN s3_multi_backend_wakeup(sleeping)
                            ELSE sleeping
            /\ hist' = [c \in Callers |->
                          LET fate == FlushFate(s.order, c) IN
                          IF fate = "untouched" THEN hist[c]
                          ELSE IF fate = "added"
                          THEN [hist[c] EXCEPT !.dequeued = TRUE, !.registered = TRUE]
                          ELSE [hist[c] EXCEPT !.dequeued = TRUE,
                                               !.marks = @ + 1,
                                               !.doneBy = "flush",
                                               !.wrote = [code |-> s.req[c].code,
                                                          err |-> s.req[c].err]]]
            /\ nMarked' = nMarked +
                 Cardinality({i \in DOMAIN s.order : s.order[i][2] # "added"})
    /\ mutex' = NoThread
    /\ wpc' = "perform"
    /\ UNCHANGED <<stop, mb_alive, max_total_connections, cpc, dpc, cur,
                   still_running, pd_pass, calls, ret, nAccepted, nDelivered>>

\* lines 208-210: move the pending requests into the CURLM, unlock
WorkerFlush ==
    \E mc \in [SeqToSet(ListFrom(pending_head, req)) -> AddResults] :
        WorkerFlushWith(mc)

\* the requests whose transfer is still going on inside the CURLM
Active == {c \in Callers : multi[c].st = "active"}

\* lines 216-218: curl_multi_perform; the transfers in S finish with outcome f
Perform(S, f) ==
    /\ wpc = "perform"
    /\ multi' = [c \in Callers |->
                   IF c \in S THEN [st |-> "msg", o |-> f[c]] ELSE multi[c]]
    /\ still_running' = Cardinality(Active \ S)
    /\ pd_pass' = 1
    /\ wpc' = "pd"
    /\ UNCHANGED <<stop, pending_head, pending_tail, running, mutex, sleeping,
                   mb_alive, max_total_connections, req, cpc, dpc, cur, calls,
                   ret, hist, nAccepted, nMarked, nDelivered>>

\* curl_multi_perform during which no transfer finishes
WorkerPerformIdle == Perform({}, <<>>)

\* curl_multi_perform during which at least one transfer finishes
WorkerPerformProgress ==
    \E S \in (SUBSET Active) \ {{}} : \E f \in [S -> XferOutcomes] : Perform(S, f)

\* lines 126-160: curl_multi_info_read gives a finished handle; derive the
\* result and remove the handle from the CURLM (no mutex held)
ProcessDoneRead ==
    /\ wpc = "pd"
    /\ \E c \in Callers :
         /\ multi[c].st = "msg"
         /\ cur' = [r |-> c] @@ process_done_derive(multi[c].o)
         /\ multi' = [multi EXCEPT ![c] = NoXfer]
    /\ wpc' = "pd_lock"
    /\ UNCHANGED <<stop, pending_head, pending_tail, running, mutex, sleeping,
                   mb_alive, max_total_connections, req, cpc, dpc, still_running,
                   pd_pass, calls, ret, hist, nAccepted, nMarked, nDelivered>>

\* line 162: pthread_mutex_lock
ProcessDoneLock ==
    /\ wpc = "pd_lock" /\ mutex = NoThread
    /\ mutex' = WorkerThread
    /\ wpc' = "pd_pub"
    /\ UNCHANGED <<stop, pending_head, pending_tail, running, sleeping, multi,
                   mb_alive, max_total_connections, req, cpc, dpc, cur,
                   still_running, pd_pass, calls, ret, hist, nAccepted, nMarked,
                   nDelivered>>

\* a harvest that forgets the counter
process_done_running_kept(n) == n

\* line 177: mb->running--
process_done_running(n) == n - 1

\* lines 164-180: write the result, done = 1, running--, broadcast, unlock
ProcessDonePublish ==
    /\ wpc = "pd_pub"
    /\ req' = [req EXCEPT ![cur.r] = process_done_publish(@, cur)]
    /\ running' = process_done_running(running)
    /\ sleeping' = s3_multi_backend_wakeup(sleeping)
    /\ mutex' = NoThread
    /\ hist' = [hist EXCEPT ![cur.r].marks = @ + 1,
                            ![cur.r].doneBy = "harvest",
                            ![cur.r].wrote = [code |-> req'[cur.r].code,
                                              err |-> req'[cur.r].err]]
    /\ nMarked' = nMarked + 1
    /\ cur' = NoCur
    /\ wpc' = "pd"
    /\ UNCHANGED <<stop, pending_head, pending_tail, multi, mb_alive,
                   max_total_connections, cpc, dpc, still_running, pd_pass,
                   calls, ret, nAccepted, nDelivered>>

\* line 126: curl_multi_info_read gives NULL: s3_multi_backend_process_done
\* returns; lines 227, 236: poll if transfers remain, else next iteration
ProcessDoneEnd ==
    /\ wpc = "pd"
    /\ \A c \in Callers : multi[c].st # "msg"
    /\ wpc' = IF pd_pass = 1 /\ still_running > 0 THEN "poll" ELSE "top"
    /\ UNCHANGED <<stop, pending_head, pending_tail, running, mutex, sleeping,
                   multi, mb_alive, max_total_connections, req, cpc, dpc, cur,
                   still_running, pd_pass, calls, ret, hist, nAccepted, nMarked,
                   nDelivered>>

\* lines 229-234: curl_multi_poll waits (it finishes no transfer: only
\* curl_multi_perform does), then s3_multi_backend_process_done runs again
WorkerPoll ==
    /\ wpc = "poll"
    /\ pd_pass' = 2
    /\ wpc' = "pd"
    /\ UNCHANGED <<stop, pending_head, pending_tail, running, mutex, sleeping,
                   multi, mb_alive, max_total_connections, req, cpc, dpc, cur,
                   still_running, calls, ret, hist, nAccepted, nMarked,
                   nDelivered>>

(* ================ multiplexed backend: s3_http_multi_destroy ============ *)

\* line 480: pthread_mutex_lock
DestroyLock ==
    /\ dpc = "idle" /\ mb_alive /\ mutex = NoThread
    /\ mutex' = DestroyThread
    /\ dpc' = "locked"
    /\ UNCHANGED <<stop, pending_head, pending_tail, running, sleeping, multi,
                   mb_alive, max_total_connections, req, cpc, wpc, cur,
                   still_running, pd_pass, calls, ret, hist, nAccepted, nMarked,
                   nDelivered>>

\* lines 481-483: stop = 1, broadcast, unlock
DestroyStop ==
    /\ dpc = "locked"
    /\ stop' = TRUE
    /\ sleeping' = s3_multi_backend_wakeup(sleeping)
    /\ mutex' = NoThread
    /\ dpc' = "join"
    /\ UNCHANGED <<pending_head, pending_tail, running, multi, mb_alive,
                   max_total_connections, req, cpc, wpc, cur, still_running,
                   pd_pass, calls, ret, hist, nAccepted, nMarked, nDelivered>>

\* line 485: pthread_join returns once the worker thread has terminated
DestroyJoin ==
    /\ dpc = "join" /\ wpc = "exited"
    /\ dpc' = "cleanup"
    /\ UNCHANGED <<stop, pending_head, pending_tail, running, mutex, sleeping,
                   multi, mb_alive, max_total_connections, req, cpc, wpc, cur,
                   still_running, pd_pass, calls, ret, hist, nAccepted, nMarked,
                   nDelivered>>

\* lines 487-505: destroy the CURLM, the mutex and the condition variable,
\* free whatever is still on the pending list, free mb.  The host deletes a
\* client only when no call on it is executing (the callers use mb and the
\* client after they wake up), hence the guard on the callers.
DestroyCleanup ==
    /\ dpc = "cleanup"
    /\ \A c \in Callers : cpc[c] = "idle"
    /\ req' = [c \in Callers |->
                 IF c \in SeqToSet(ListFrom(pending_head, req)) THEN NoReq ELSE req[c]]
    /\ mb_alive' = FALSE
    /\ dpc' = "returned"
    /\ UNCHANGED <<stop, pending_head, pending_tail, running, mutex, sleeping,
                   multi, max_total_connections, cpc, wpc, cur, still_running,
                   pd_pass, calls, ret, hist, nAccepted, nMarked, nDelivered>>

(* ======================= multiplexed backend: Spec ====================== *)

CallerStep(c) ==
    \/ SubmitNoMem(c)
    \/ SubmitAlloc(c)
    \/ SubmitReject(c)
    \/ SubmitEnqueue(c)
    \/ SubmitWait(c)
    \/ SubmitWake(c)
    \/ SubmitSeeDone(c)
    \/ SubmitReturn(c)

\* the steps of a call once it has started (everything but starting a call)
CallerProgress(c) ==
    \/ SubmitReject(c)
    \/ SubmitEnqueue(c)
    \/ SubmitWait(c)
    \/ SubmitSeeDone(c)
    \/ SubmitReturn(c)

WorkerStep ==
    \/ WorkerLock
    \/ WorkerWait
    \/ WorkerExit
    \/ WorkerFlush
    \/ WorkerPerformIdle
    \/ WorkerPerformProgress
    \/ ProcessDoneRead
    \/ ProcessDoneLock
    \/ ProcessDonePublish
    \/ ProcessDoneEnd
    \/ WorkerPoll

DestroyStep ==
    \/ DestroyLock
    \/ DestroyStop
    \/ DestroyJoin
    \/ DestroyCleanup

MultiNext ==
    \/ \E c \in Callers : CallerStep(c)
    \/ WorkerStep
    \/ DestroyStep

Next == MultiNext /\ UNCHANGED <<fvars, pvars, xvars>>

Spec == Init /\ [][Next]_vars

SpecConn == InitConn /\ [][Next]_vars


(* ------------------------------ fairness -------------------------------- *)

\* the worker's steps that need no mutex acquisition
WorkerProgress ==
    \/ WorkerWait
    \/ WorkerExit
    \/ WorkerFlush
    \/ WorkerPerformIdle
    \/ WorkerPerformProgress
    \/ ProcessDoneRead
    \/ ProcessDonePublish
    \/ ProcessDoneEnd
    \/ WorkerPoll

\* Fair scheduling: a thread that can run does run (weak fairness), a thread
\* that keeps finding the mutex free now and then does get it (strong
\* fairness on the lock steps), and the transport finishes a transfer that
\* curl_multi_perform keeps being called for (strong fairness on progress).
\* Starting a call and starting destroy are the host's choice: no fairness.
Fairness ==
    /\ \A c \in Callers : WF_vars(CallerProgress(c) /\ UNCHANGED <<fvars, pvars, xvars>>)
    /\ \A c \in Callers :
         SF_vars(SubmitWake(c) /\ UNCHANGED <<fvars, pvars, xvars>>)
    /\ WF_vars(WorkerProgress /\ UNCHANGED <<fvars, pvars, xvars>>)
    /\ SF_vars((WorkerLock \/ ProcessDoneLock) /\ UNCHANGED <<fvars, pvars, xvars>>)
    /\ SF_vars(WorkerPerformProgress /\ UNCHANGED <<fvars, pvars, xvars>>)
    /\ WF_vars(DestroyStop /\ UNCHANGED <<fvars, pvars, xvars>>)

SpecFair == Init /\ [][Next]_vars /\ Fairness

(* ====================== claims: multiplexed backend ===================== *)

C1_ExactlyOnce ==
    \A c \in Callers :
        /\ hist[c].marks <= 1
        /\ (req[c].live /\ req[c].done) => hist[c].marks = 1
        /\ cpc[c] = "copy" => hist[c].marks = 1

C1_Counts ==
    /\ nDelivered <= nMarked
    /\ nMarked <= nAccepted
    /\ (\A c \in Callers : ~hist[c].accepted) =>
           (nMarked = nAccepted /\ nDelivered = nAccepted)

Registered == {c \in Callers : multi[c].st # "none"}

\* requests that were registered and whose record is not yet marked done
Unharvested == {c \in Callers : hist[c].registered /\ hist[c].doneBy = "none"}

\* C2: whenever the worker holds the mutex at the top of its loop, running
\* equals the number of handles registered with the CURLM and not yet
\* harvested; it is zero iff every registered request has been harvested, and
\* it is never negative (in any state).
C2_InFlight ==
    /\ running >= 0
    /\ wpc = "locked" =>
          /\ running = Cardinality(Registered)
          /\ running = Cardinality(Unharvested)
          /\ (running = 0 <=> \A c \in Callers :
                                 hist[c].registered => hist[c].doneBy = "harvest")

\* the worker is at the top of its loop with the mutex and a handle in flight
C2_Witness ==
    /\ wpc = "locked"
    /\ mutex = WorkerThread
    /\ running >= 1
    /\ running = Cardinality(Registered)
    /\ \E c \in Callers : hist[c].doneBy = "harvest"

\* C3: s3_http_multi_destroy gets past pthread_join only after the worker has
\* terminated, and the worker terminates only from a state where stop is set,
\* the pending list is empty and running is zero.
C3_Theorem ==
    /\ [](dpc \in {"cleanup", "returned"} => wpc = "exited")
    /\ [][(wpc # "exited" /\ wpc' = "exited") =>
             (stop /\ pending_head = NULL /\ running = 0 /\ mutex = WorkerThread)]_vars
    /\ [](wpc = "exited" => (stop /\ running = 0 /\ Registered = {}))

\* destroy has returned after requests went through the worker
C3_Witness ==
    /\ dpc = "returned"
    /\ wpc = "exited"
    /\ nMarked >= 1

\* C4: a caller leaves the wait loop only on seeing done set in its own record
\* while it holds the mutex; what it returns is exactly what the worker wrote
\* into that record; the pending list, running, stop and done are written only
\* by the thread that holds the mutex.
C4_Theorem ==
    /\ [][\A c \in Callers :
            (cpc[c] # "copy" /\ cpc'[c] = "copy") =>
               (cpc[c] = "check" /\ req[c].done /\ mutex = CallerThread(c))]_vars
    /\ [](\A c \in Callers :
            (cpc[c] = "idle" /\ hist[c].dequeued) =>
               (ret[c] = hist[c].wrote /\ hist[c].marks = 1 /\ ret[c] # NoRet))
    /\ [][/\ (pending_head' # pending_head \/ pending_tail' # pending_tail
               \/ running' # running \/ stop' # stop) => mutex # NoThread
          /\ running' # running => mutex = WorkerThread
          /\ stop' # stop => mutex = DestroyThread
          /\ \A c \in Callers :
               (req[c].live /\ req'[c].live /\ cpc[c] # "idle") =>
                  /\ req'[c].done # req[c].done => mutex = WorkerThread
                  /\ req'[c].next # req[c].next => mutex # NoThread
                  /\ (req'[c].code # req[c].code \/ req'[c].err # req[c].err)
                        => mutex = WorkerThread]_vars

\* a caller has returned the NOT_FOUND result the worker wrote for its request
\* while another caller got a different result
C4_Witness ==
    \E c, d \in Callers :
        /\ cpc[c] = "idle" /\ hist[c].doneBy = "harvest"
        /\ ret[c].code = S3_E_NOT_FOUND /\ ret[c].err.http_status = 404
        /\ cpc[d] = "idle" /\ hist[d].doneBy = "harvest"
        /\ ret[d].code = S3_E_OK

\* C5 as stated: no completion record is marked done before the worker has
\* dequeued it and registered its handle with the CURLM.
C5_Original ==
    \A c \in Callers :
        (req[c].live /\ req[c].done) => (hist[c].dequeued /\ hist[c].registered)

\* C5: no completion record is marked done before the worker has dequeued it;
\* a record marked done by the harvest was registered with the CURLM before;
\* a record whose registration failed is marked done by the drain itself, with
\* a transport or internal error, without ever having been registered.
C5_Amended ==
    \A c \in Callers :
        /\ (req[c].live /\ req[c].done) => hist[c].dequeued
        /\ hist[c].marks > 0 => hist[c].dequeued
        /\ hist[c].doneBy = "harvest" => hist[c].registered
        /\ hist[c].doneBy = "flush" =>
              /\ ~hist[c].registered
              /\ hist[c].wrote.code \in {S3_E_CURL, S3_E_INTERNAL}

\* one record was completed by the harvest after its registration, another by
\* the drain because its registration failed
C5_Witness ==
    \E c, d \in Callers :
        /\ req[c].live /\ req[c].done /\ hist[c].doneBy = "harvest"
        /\ hist[c].registered
        /\ hist[d].doneBy = "flush" /\ ~hist[d].registered

C7_Original ==
    /\ running <= max_total_connections
    /\ (nMarked = nAccepted /\ pending_head = NULL) => running = 0

\* C7: running never exceeds the number of accepted submissions that are not
\* yet completed (so at most the number of concurrent callers, whatever
\* max_total_connections is, which is only handed to the CURLM), and it is
\* zero once every accepted submission has completed.
C7_Amended ==
    /\ running <= Cardinality({c \in Callers :
                                  hist[c].accepted /\ hist[c].doneBy = "none"})
    /\ running <= NCallers
    /\ (nMarked = nAccepted) => running = 0

\* more handles in flight than max_total_connections
C7_Witness ==
    /\ running >= 2
    /\ running > max_total_connections


(* ============================ client facade ============================= *)

\* facade calls made on one client
MaxOps == 2

Backends == {"easy", "multi"}

\* what the request factory may answer (s3_easy_factory_new_*)
FactoryOutcomes == {S3_E_OK, S3_E_NOMEM, S3_E_INVALID_ARG, S3_E_INIT}

\* what the transport may answer to a request of a facade call
FacadeOutcomes ==
    {Outcome(CURLE_OK, 200), Outcome(CURLE_OK, 404), Outcome(CURLE_OK, 500),
     Outcome(CURLE_OPERATION_TIMEDOUT, 0)}

\* how s3_http_multi_submit_and_wait can end for one request
SubmitFates == {"nomem", "stopping", "addfail", "harvest"}

\* allocation failures inside s3_parse_list_response
ParseFailures == [array_fail : BOOLEAN, strings_fail : BOOLEAN]

\* everything a facade call depends on: validity of the arguments the facade
\* checks and of those the backend checks, the factory's answer, the fate of
\* the submission (multiplexed backend), the transport outcome, allocation
\* failures in the parser, and whether coio_call ran the worker function
FacadeInputs ==
    [args_ok : BOOLEAN, bargs_ok : BOOLEAN, factory : FactoryOutcomes,
     sub : SubmitFates, o : FacadeOutcomes, parse : ParseFailures,
     coio : BOOLEAN]

\* s3_http_multi_submit_and_wait as seen by its caller: (code, *error)
s3_http_multi_submit_and_wait(sub, o) ==
    IF sub = "nomem"
    THEN [code |-> S3_E_NOMEM,
          err |-> s3_error_set(S3_E_NOMEM, "Out of memory in multi backend",
                               ENOMEM, 0, 0)]
    ELSE IF sub = "stopping"
    THEN [code |-> S3_E_INTERNAL,
          err |-> s3_error_set(S3_E_INTERNAL, "S3 multi backend is stopping",
                               0, 0, 0)]
    ELSE IF sub = "addfail"
    THEN submit_result(
             flush_add_failed([req |-> <<s3_multi_req_init(TRUE)>>,
                               woke |-> FALSE, order |-> <<>>],
                              1, CURLM_OUT_OF_MEMORY).req[1])
    ELSE submit_result(process_done_publish(s3_multi_req_init(TRUE),
                                            process_done_derive(o)))

\* s3_parse_list_response: the error record is cleared first; a failed array
\* growth returns err->code (NOMEM); a failed string copy inside
\* s3_xml_get_text_between sets the record to NOMEM and parsing goes on to
\* return S3_E_OK
s3_parse_list_response(pf) ==
    IF pf.array_fail
    THEN [code |-> S3_E_NOMEM,
          err |-> s3_error_set(S3_E_NOMEM,
                               "Out of memory in s3_parse_list_response",
                               ENOMEM, 0, 0)]
    ELSE IF pf.strings_fail
    THEN [code |-> S3_E_OK,
          err |-> s3_error_set(S3_E_NOMEM,
                               "Out of memory in xml_get_text_between",
                               ENOMEM, 0, 0)]
    ELSE [code |-> S3_E_OK, err |-> s3_error_clear]

\* the vtable operation of backend b: argument check, factory, transfer,
\* and for list_objects the parse of a successful response.  The error record
\* starts as the task's cleared record.  Result: (code, err, path taken).
s3_http_backend_op(b, op, bargs_msg, x) ==
    IF ~x.bargs_ok
    THEN [code |-> S3_E_INVALID_ARG,
          err |-> s3_error_set(S3_E_INVALID_ARG, bargs_msg, 0, 0, 0),
          path |-> "backend_args"]
    ELSE IF x.factory # S3_E_OK
    THEN [code |-> x.factory,
          err |-> s3_error_set(x.factory, "factory", 0, 0, 0),
          path |-> "factory"]
    ELSE LET r == IF b = "easy" THEN s3_http_easy_perform(x.o)
                  ELSE s3_http_multi_submit_and_wait(x.sub, x.o)
         IN IF op = "list_objects" /\ r.code = S3_E_OK
            THEN s3_parse_list_response(x.parse) @@ [path |-> "parse"]
            ELSE r @@ [path |-> "transfer"]

\* the part common to the five entry points after their argument check:
\* cleared task, coio_call, *err = task.err, s3_client_set_error, return
\* task.code
FacadeCall(op, bargs_msg, x) ==
    LET task == IF x.coio
                THEN s3_http_backend_op(f_backend, op, bargs_msg, x)
                ELSE [code |-> S3_E_OK, err |-> s3_error_clear,
                      path |-> "coio_failed"]
    IN /\ f_err' = task.err
       /\ last_error' = task.err
       /\ f_ret' = task.code
       /\ f_path' = <<op, task.path>>

\* the argument check of put_fd, get_fd, create_bucket and list_objects:
\* the record is set to INVALID_ARG, stored in the client and its code returned
FacadeBadArgs(op, msg) ==
    LET err == s3_error_set(S3_E_INVALID_ARG, msg, 0, 0, 0)
    IN /\ f_err' = err
       /\ last_error' = err
       /\ f_ret' = err.code
       /\ f_path' = <<op, "args">>

FacadeReady == f_backend \in Backends /\ f_n < MaxOps

s3_client_put_fd ==
    /\ FacadeReady
    /\ \E x \in FacadeInputs :
         IF ~x.args_ok THEN FacadeBadArgs("put_fd", "client or opts is NULL")
         ELSE FacadeCall("put_fd", "invalid fd or size for PUT", x)
    /\ f_n' = f_n + 1
    /\ UNCHANGED <<f_backend, mvars, pvars, xvars>>

s3_client_get_fd ==
    /\ FacadeReady
    /\ \E x \in FacadeInputs :
         IF ~x.args_ok THEN FacadeBadArgs("get_fd", "client or opts is NULL")
         ELSE FacadeCall("get_fd", "invalid fd for GET", x)
    /\ f_n' = f_n + 1
    /\ UNCHANGED <<f_backend, mvars, pvars, xvars>>

s3_client_create_bucket ==
    /\ FacadeReady
    /\ \E x \in FacadeInputs :
         IF ~x.args_ok
         THEN FacadeBadArgs("create_bucket", "client or opts is NULL")
         ELSE FacadeCall("create_bucket", "bucket name is empty", x)
    /\ f_n' = f_n + 1
    /\ UNCHANGED <<f_backend, mvars, pvars, xvars>>

\* the backend's own check (opts or out NULL) cannot fail after the facade's
s3_client_list_objects ==
    /\ FacadeReady
    /\ \E x \in {y \in FacadeInputs : y.bargs_ok} :
         IF ~x.args_ok
         THEN FacadeBadArgs("list_objects",
                            "client, opts or out is NULL in list_objects")
         ELSE FacadeCall("list_objects", "opts or out is NULL for LIST", x)
    /\ f_n' = f_n + 1
    /\ UNCHANGED <<f_backend, mvars, pvars, xvars>>

\* lines 635-641: on invalid arguments the record is set and its code
\* returned, and client->last_error is left as it was
s3_client_delete_objects ==
    /\ FacadeReady
    /\ \E x \in {y \in FacadeInputs : y.bargs_ok} :
         IF ~x.args_ok
         THEN LET err == s3_error_set(S3_E_INVALID_ARG,
                   "client, opts, objects or count is invalid in delete_objects",
                   0, 0, 0)
              IN /\ f_err' = err
                 /\ f_ret' = err.code
                 /\ f_path' = <<"delete_objects", "args">>
                 /\ UNCHANGED last_error
         ELSE FacadeCall("delete_objects", "empty delete_objects opts", x)
    /\ f_n' = f_n + 1
    /\ UNCHANGED <<f_backend, mvars, pvars, xvars>>

\* s3_client_new succeeded: last_error is the cleared record
FacadeInit ==
    /\ MultiInit({0})
    /\ MapIdle
    /\ ExtIdle
    /\ last_error = s3_error_clear
    /\ f_ret = "none"
    /\ f_err = S3_ERROR_INIT
    /\ f_path = <<"none", "none">>
    /\ f_n = 0
    /\ f_backend \in Backends

FacadeNext ==
    \/ s3_client_put_fd
    \/ s3_client_get_fd
    \/ s3_client_create_bucket
    \/ s3_client_list_objects
    \/ s3_client_delete_objects

SpecFacade == FacadeInit /\ [][FacadeNext]_vars

(* ========================= claims: client facade ======================== *)

\* C8 as stated: after any sequence of facade operations issued one at a
\* time, last_error.code is OK if and only if the most recent operation
\* returned OK.
C8_Original ==
    f_n > 0 => (last_error.code = S3_E_OK <=> f_ret = S3_E_OK)

\* C9 as stated: for every entry point on every path the code of the error
\* record handed to the caller equals the returned kind, and the client's
\* last_error holds that same record.
C9_Original ==
    f_n > 0 => (f_err.code = f_ret /\ last_error = f_err)


(* ================== mapping of one finished request ===================== *)

\* transport results and HTTP statuses the mapping is exercised with
MapCurlCodes ==
    {CURLE_OK, CURLE_COULDNT_RESOLVE_HOST, CURLE_COULDNT_CONNECT,
     CURLE_WRITE_ERROR, CURLE_READ_ERROR, CURLE_OPERATION_TIMEDOUT,
     CURLE_SSL_CONNECT_ERROR, CURLE_GOT_NOTHING, CURLE_RECV_ERROR}

MapStatuses ==
    {0, 100, 199, 200, 201, 204, 299, 300, 301, 400, 401, 403, 404, 408, 409,
     500, 503}

MapInputs ==
    [backend : Backends,
     o : {Outcome(cc, st) : cc \in MapCurlCodes, st \in MapStatuses}]

MapInit ==
    /\ MultiInit({0})
    /\ FacadeIdle
    /\ ExtIdle
    /\ m_in \in MapInputs
    /\ m_out = NoRet

\* the sync backend finishes the request: s3_http_easy_perform
MapEasy ==
    /\ m_in.backend = "easy" /\ m_out = NoRet
    /\ m_out' = s3_http_easy_perform(m_in.o)
    /\ UNCHANGED <<m_in, mvars, fvars, xvars>>

\* the multiplexed backend finishes the request: the worker derives and
\* publishes the result, the submitting caller copies it out
MapMulti ==
    /\ m_in.backend = "multi" /\ m_out = NoRet
    /\ m_out' = submit_result(process_done_publish(s3_multi_req_init(TRUE),
                                                   process_done_derive(m_in.o)))
    /\ UNCHANGED <<m_in, mvars, fvars, xvars>>

MapNext == MapEasy \/ MapMulti

SpecMap == MapInit /\ [][MapNext]_vars

\* the kind the documented mapping gives for a transport result and a status
C10_Kind(cc, status) ==
    IF cc # CURLE_OK
    THEN CASE cc = CURLE_OPERATION_TIMEDOUT -> S3_E_TIMEOUT
           [] cc = CURLE_COULDNT_RESOLVE_HOST -> S3_E_INIT
           [] cc = CURLE_COULDNT_CONNECT -> S3_E_INIT
           [] cc = CURLE_READ_ERROR -> S3_E_IO
           [] cc = CURLE_WRITE_ERROR -> S3_E_IO
           [] OTHER -> S3_E_CURL
    ELSE CASE status \in 200..299 -> S3_E_OK
           [] status = 401 -> S3_E_AUTH
           [] status = 403 -> S3_E_ACCESS_DENIED
           [] status = 404 -> S3_E_NOT_FOUND
           [] status = 408 -> S3_E_TIMEOUT
           [] OTHER -> S3_E_HTTP

\* C10: in both backends the kind delivered for a finished request is the
\* documented function of (transport result, HTTP status), the record's code
\* is that kind, and for a non-2xx status of a transfer that succeeded the
\* record's http_status is the server's status.
C10_Mapping ==
    m_out # NoRet =>
       /\ m_out.code = C10_Kind(m_in.o.cc, m_in.o.status)
       /\ m_out.err.code = m_out.code
       /\ (m_in.o.cc = CURLE_OK /\ m_in.o.status \notin 200..299) =>
              m_out.err.http_status = m_in.o.status

\* the multiplexed backend has delivered NOT_FOUND with status 404
C10_Witness ==
    /\ m_in.backend = "multi"
    /\ m_in.o = Outcome(CURLE_OK, 404)
    /\ m_out.code = S3_E_NOT_FOUND
    /\ m_out.err.http_status = 404


(* ============== one prepared request: read and write adapters =========== *)

\* longest body (request or response) and largest count of a put or get
MaxBody == 3
\* largest buffer libcurl hands to a callback
MaxBuf == 2
\* largest file offset of a put or get
MaxOff == 1

CURL_READFUNC_ABORT == 268435456
CURLE_ABORTED_BY_CALLBACK == 42

Min(a, b) == IF a < b THEN a ELSE b

\* s3_easy_io_init_fd, s3_easy_io_init_mem
s3_easy_io_init_fd(offset, size_limit) ==
    [kind |-> "S3_IO_FD", size_limit |-> size_limit, offset |-> offset]
s3_easy_io_init_mem(size_limit) ==
    [kind |-> "S3_IO_MEM", size_limit |-> size_limit, offset |-> 0]

\* the handles the factories prepare (the I/O part of each)
s3_easy_factory_new_put_fd(offset, size) ==
    [NoHandle EXCEPT !.op = "put_fd",
                     !.read_io = s3_easy_io_init_fd(offset, size)]
s3_easy_factory_new_get_fd(offset, max_size) ==
    [NoHandle EXCEPT !.op = "get_fd",
                     !.write_io = s3_easy_io_init_fd(offset, max_size)]
s3_easy_factory_new_list_objects ==
    [NoHandle EXCEPT !.op = "list_objects",
                     !.write_io = s3_easy_io_init_mem(0)]
s3_easy_factory_new_delete_objects(body_size) ==
    [NoHandle EXCEPT !.op = "delete_objects",
                     !.owned_body_size = body_size,
                     !.read_io = s3_easy_io_init_mem(body_size),
                     !.write_io = s3_easy_io_init_mem(0)]

\* pread/pwrite asked for cnt bytes when the file can take or give avail
\* bytes at that position (avail < 0: the call fails)
PosixIO(cnt, avail) == IF avail < 0 THEN -1 ELSE Min(cnt, avail)

\* a read adapter that ignores size_limit
read_cb_max_to_read_unbounded(buf_size, size_limit, total) == buf_size

\* s3_curl_read_cb lines 80-93: the most this call may hand over (0: nothing)
read_cb_max_to_read(buf_size, size_limit, total) ==
    IF size_limit > 0
    THEN IF total >= size_limit THEN 0
         ELSE Min(size_limit - total, buf_size)
    ELSE buf_size

\* a read adapter that counts what it asked for, not what it got
read_cb_total_asked(total, rc, to_read) == total + to_read

\* s3_curl_read_cb line 116: read_bytes_total += rc
read_cb_total(total, rc, to_read) == total + rc

\* s3_curl_read_cb: what it returns, the handle afterwards and the system
\* call it made (none: <<>>)
s3_curl_read_cb(hd, buf_size, avail) ==
    LET io == hd.read_io
        nothing == [ret |-> 0, h |-> hd, sys |-> <<>>]
    IN
    IF buf_size = 0 \/ io.kind = "S3_IO_NONE" THEN nothing
    ELSE
    LET max_to_read ==
            read_cb_max_to_read(buf_size, io.size_limit, hd.read_bytes_total)
    IN
    IF max_to_read = 0 THEN nothing
    ELSE IF io.kind = "S3_IO_FD"
    THEN LET rc == PosixIO(max_to_read, avail)
             sys == <<[call |-> "pread", pos |-> io.offset + hd.read_bytes_total,
                       cnt |-> max_to_read, rc |-> rc]>>
         IN IF rc < 0 THEN [ret |-> CURL_READFUNC_ABORT, h |-> hd, sys |-> sys]
            ELSE IF rc = 0 THEN [ret |-> 0, h |-> hd, sys |-> sys]
            ELSE [ret |-> rc,
                  h |-> [hd EXCEPT !.read_bytes_total =
                                      read_cb_total(@, rc, max_to_read)],
                  sys |-> sys]
    ELSE LET total == hd.owned_body_size IN
         IF hd.read_bytes_total >= total THEN nothing
         ELSE LET to_read == Min(max_to_read, total - hd.read_bytes_total) IN
              IF to_read = 0 THEN nothing
              ELSE [ret |-> to_read,
                    h |-> [hd EXCEPT !.read_bytes_total = @ + to_read],
                    sys |-> <<>>]

\* a write adapter that counts the part it was handed, not what it wrote
write_cb_total_handed(total, rc, buf_size) == total + buf_size

\* s3_curl_write_cb line 193: write_bytes_total += rc
write_cb_total(total, rc, buf_size) == total + rc

\* a write adapter that ignores size_limit when a part crosses it
write_cb_to_write_all(buf_size, size_limit, remaining) == buf_size

\* s3_curl_write_cb lines 173-175: the part of the buffer this call writes
write_cb_to_write(buf_size, size_limit, remaining) ==
    IF size_limit > 0 /\ buf_size > remaining THEN remaining ELSE buf_size

\* s3_curl_write_cb: what it returns, the handle afterwards and the system
\* call it made; reserve_ok: s3_mem_buf_reserve succeeds
s3_curl_write_cb(hd, buf_size, avail, reserve_ok) ==
    LET io == hd.write_io
        nothing == [ret |-> 0, h |-> hd, sys |-> <<>>]
    IN
    IF buf_size = 0 THEN nothing
    ELSE IF io.kind = "S3_IO_NONE"
    THEN [ret |-> buf_size,
          h |-> [hd EXCEPT !.write_bytes_total = @ + buf_size],
          sys |-> <<>>]
    ELSE
    LET remaining == IF io.size_limit > 0
                     THEN io.size_limit - hd.write_bytes_total
                     ELSE buf_size
        to_write == write_cb_to_write(buf_size, io.size_limit, remaining)
    IN
    IF io.size_limit > 0 /\ remaining = 0 THEN nothing
    ELSE IF io.kind = "S3_IO_FD"
    THEN LET rc == PosixIO(to_write, avail)
             sys == <<[call |-> "pwrite",
                       pos |-> io.offset + hd.write_bytes_total,
                       cnt |-> to_write, rc |-> rc]>>
         IN IF rc < 0 THEN [ret |-> 0, h |-> hd, sys |-> sys]
            ELSE [ret |-> rc,
                  h |-> [hd EXCEPT !.write_bytes_total =
                                      write_cb_total(@, rc, buf_size)],
                  sys |-> sys]
    ELSE IF ~reserve_ok THEN nothing
         ELSE [ret |-> to_write,
               h |-> [hd EXCEPT !.owned_resp_size = @ + to_write,
                                !.write_bytes_total = @ + to_write],
               sys |-> <<>>]

\* everything but the variables of the prepared request
IORest == <<mvars, fvars, pvars, cvars, dvars, lvars, ovars, avars>>

\* the requests the four body-carrying operations prepare, and the state
\* of libcurl when the transfer starts
IOInit ==
    /\ MultiInit({0}) /\ FacadeIdle /\ MapIdle /\ NewIdle /\ DelIdle
    /\ ListIdle /\ OpsIdle /\ ArgsIdle
    /\ easy_h \in
         {s3_easy_factory_new_put_fd(off, n) : off \in 0..MaxOff, n \in 1..MaxBody}
         \cup {s3_easy_factory_new_get_fd(off, mx) :
                  off \in 0..MaxOff, mx \in 0..MaxBody}
         \cup {s3_easy_factory_new_list_objects}
         \cup {s3_easy_factory_new_delete_objects(b) : b \in 1..MaxBody}
    /\ \E len \in 0..MaxBody :
         xfer = [phase |-> IF easy_h.op \in {"put_fd", "delete_objects"}
                           THEN "upload" ELSE "download",
                 announced |-> IF easy_h.op = "put_fd"
                               THEN easy_h.read_io.size_limit
                               ELSE easy_h.owned_body_size,
                 body_len |-> len, uploaded |-> 0, delivered |-> 0]
    /\ io_log = <<>>
    /\ io_ret = NoIORet

\* one entry of io_log
LogEntry(cb, buf_size, r) ==
    [cb |-> cb, buf_size |-> buf_size, ret |-> r.ret, sys |-> r.sys,
     rbefore |-> easy_h.read_bytes_total, rafter |-> r.h.read_bytes_total,
     wbefore |-> easy_h.write_bytes_total, wafter |-> r.h.write_bytes_total,
     resp_size |-> r.h.owned_resp_size]

\* the backend operation returns: the kind from the transfer's result and, for
\* get_fd, *bytes_written = h->write_bytes_total (http_easy.c lines 152-158,
\* http_multi.c lines 358-365)
IOReturn(hd, cc, status) ==
    /\ io_ret' = [code |-> s3_http_easy_perform(Outcome(cc, status)).code,
                  bytes_written |-> hd.write_bytes_total]
    /\ xfer' = [xfer EXCEPT !.phase = "done"]

\* libcurl asks the read callback for the next part of the request body
XferUpload ==
    /\ xfer.phase = "upload"
    /\ \E buf_size \in 1..MaxBuf, avail \in -1..MaxBuf :
         LET r == s3_curl_read_cb(easy_h, buf_size, avail) IN
         /\ easy_h' = r.h
         /\ io_log' = Append(io_log, LogEntry("read", buf_size, r))
         /\ IF r.ret = CURL_READFUNC_ABORT
            THEN IOReturn(r.h, CURLE_ABORTED_BY_CALLBACK, 0)
            ELSE IF r.ret = 0
            THEN IF xfer.uploaded = xfer.announced
                 THEN /\ xfer' = [xfer EXCEPT !.phase = "download"]
                      /\ UNCHANGED io_ret
                 ELSE \E cc \in {CURLE_READ_ERROR, CURLE_OPERATION_TIMEDOUT} :
                          IOReturn(r.h, cc, 0)
            ELSE /\ xfer' = [xfer EXCEPT !.uploaded = @ + r.ret]
                 /\ UNCHANGED io_ret
    /\ UNCHANGED IORest

\* the whole request body has gone out
Uploaded ==
    \/ xfer.phase = "download"
    \/ xfer.phase = "upload" /\ xfer.uploaded = xfer.announced

\* libcurl hands the next part of the response body to the write callback;
\* a return value other than the part's size ends the transfer with
\* CURLE_WRITE_ERROR.  A put has no write callback installed.
XferDeliver ==
    /\ Uploaded
    /\ easy_h.op # "put_fd"
    /\ xfer.delivered < xfer.body_len
    /\ \E k \in 1..Min(MaxBuf, xfer.body_len - xfer.delivered),
          avail \in -1..MaxBuf, reserve_ok \in BOOLEAN :
         LET r == s3_curl_write_cb(easy_h, k, avail, reserve_ok) IN
         /\ easy_h' = r.h
         /\ io_log' = Append(io_log, LogEntry("write", k, r))
         /\ IF r.ret # k
            THEN IOReturn(r.h, CURLE_WRITE_ERROR, 0)
            ELSE /\ xfer' = [xfer EXCEPT !.phase = "download",
                                         !.delivered = @ + k]
                 /\ UNCHANGED io_ret
    /\ UNCHANGED IORest

\* the transfer completes with an HTTP status
XferFinish ==
    /\ Uploaded
    /\ easy_h.op = "put_fd" \/ xfer.delivered = xfer.body_len
    /\ \E status \in {200, 404} : IOReturn(easy_h, CURLE_OK, status)
    /\ UNCHANGED <<easy_h, io_log, IORest>>

\* the transport gives up at some point of the transfer
XferFail ==
    /\ xfer.phase \in {"upload", "download"}
    /\ IOReturn(easy_h, CURLE_RECV_ERROR, 0)
    /\ UNCHANGED <<easy_h, io_log, IORest>>

IONext == XferUpload \/ XferDeliver \/ XferFinish \/ XferFail

SpecIO == IOInit /\ [][IONext]_vars

(* ---- C11 ---- *)
\* C11: when get_fd(fd, off, max) has returned OK, whatever parts the
\* transport cut the body into, the reported bytes_written is the length of
\* the body the server sent if max = 0, and min(that length, max) if max > 0.
C11_Theorem ==
    (xfer.phase = "done" /\ easy_h.op = "get_fd" /\ io_ret.code = S3_E_OK)
    => io_ret.bytes_written =
         IF easy_h.write_io.size_limit = 0
         THEN xfer.body_len
         ELSE Min(xfer.body_len, easy_h.write_io.size_limit)

\* a get with a limit returned OK after the body arrived in several parts
C11_Witness ==
    /\ xfer.phase = "done" /\ easy_h.op = "get_fd" /\ io_ret.code = S3_E_OK
    /\ easy_h.write_io.size_limit > 0
    /\ Len(io_log) >= 2
    /\ io_ret.bytes_written = xfer.body_len

(* ---- C12 ---- *)
\* the bytes the first i callbacks of the log handed to libcurl
RECURSIVE Handed(_, _)
Handed(log, i) ==
    IF i = 0 THEN 0
    ELSE Handed(log, i - 1)
         + (IF log[i].ret = CURL_READFUNC_ABORT THEN 0 ELSE log[i].ret)

\* C12: during put_fd(fd, off, n) every access of the read adapter to the
\* file is one pread that starts at off + (bytes already handed over) and
\* ends no later than off + n, so the reads are contiguous, do not overlap
\* and stay inside [off, off+n); no callback returns more than n minus the
\* bytes already handed over; a put that returned OK has read exactly n bytes.
C12_Theorem ==
    easy_h.op = "put_fd" =>
      LET off == easy_h.read_io.offset
          n == easy_h.read_io.size_limit
      IN
      /\ \A i \in 1..Len(io_log) :
           LET e == io_log[i]
               handed == Handed(io_log, i - 1)
           IN
           /\ e.cb = "read"
           /\ Len(e.sys) <= 1
           /\ \A j \in 1..Len(e.sys) :
                /\ e.sys[j].call = "pread"
                /\ e.sys[j].pos = off + handed
                /\ e.sys[j].cnt >= 1
                /\ e.sys[j].pos + e.sys[j].cnt <= off + n
           /\ e.ret # CURL_READFUNC_ABORT => e.ret <= n - handed
      /\ (xfer.phase = "done" /\ io_ret.code = S3_E_OK)
           => /\ Handed(io_log, Len(io_log)) = n
              /\ easy_h.read_bytes_total = n

\* a put from a non-zero offset returned OK after the file gave its bytes in
\* more than one read
C12_Witness ==
    /\ easy_h.op = "put_fd" /\ xfer.phase = "done" /\ io_ret.code = S3_E_OK
    /\ easy_h.read_io.offset > 0
    /\ \E i, j \in 1..Len(io_log) :
         /\ i < j
         /\ io_log[i].ret > 0 /\ io_log[j].ret > 0
         /\ io_log[j].ret # CURL_READFUNC_ABORT
         /\ io_log[j].sys # <<>>

(* ---- C13 ---- *)
\* C13: over any sequence of read and write callbacks on one prepared
\* request, each callback starts from the totals the previous one left,
\* neither total ever decreases, the total of the callback's own direction
\* grows by exactly the number of bytes the callback returned as accepted
\* (nothing on end of stream or abort) and the other total stays; with a
\* memory write adapter write_bytes_total is the size of the buffer.
C13_Theorem ==
    /\ \A i \in 1..Len(io_log) :
         LET e == io_log[i]
             accepted == IF e.ret = CURL_READFUNC_ABORT THEN 0 ELSE e.ret
         IN
         /\ e.rbefore = (IF i = 1 THEN 0 ELSE io_log[i - 1].rafter)
         /\ e.wbefore = (IF i = 1 THEN 0 ELSE io_log[i - 1].wafter)
         /\ e.rafter >= e.rbefore
         /\ e.wafter >= e.wbefore
         /\ e.cb = "read" => e.rafter = e.rbefore + accepted
                             /\ e.wafter = e.wbefore
         /\ e.cb = "write" => e.wafter = e.wbefore + e.ret
                              /\ e.rafter = e.rbefore
         /\ easy_h.write_io.kind = "S3_IO_MEM" => e.wafter = e.resp_size
    /\ Len(io_log) > 0 =>
         /\ easy_h.read_bytes_total = io_log[Len(io_log)].rafter
         /\ easy_h.write_bytes_total = io_log[Len(io_log)].wafter
    /\ easy_h.write_io.kind = "S3_IO_MEM"
         => easy_h.write_bytes_total = easy_h.owned_resp_size

\* a request whose body went out through the read callback and whose
\* response went to the memory buffer in two parts
C13_Witness ==
    /\ easy_h.write_io.kind = "S3_IO_MEM"
    /\ easy_h.owned_resp_size >= 2
    /\ \E i, j \in 1..Len(io_log) :
         /\ i < j
         /\ io_log[i].cb = "write" /\ io_log[i].ret > 0
         /\ io_log[j].cb = "write" /\ io_log[j].ret > 0
    /\ \E i \in 1..Len(io_log) : io_log[i].cb = "read" /\ io_log[i].ret > 0

(* ================== creation and destruction of a client ================ *)

\* everything but the variables of the client's life cycle
NewRest == <<mvars, fvars, pvars, iovars, dvars, lvars, ovars, avars>>

\* the steps of s3_client_new that can fail for reasons outside the arguments
NewFaults ==
    {"none", "curl_global_init", "curl_multi_init", "pthread_create"}
    \cup (Blocks \ {"curlm"})

NewInit ==
    /\ MultiInit({0}) /\ FacadeIdle /\ MapIdle /\ IOIdle /\ DelIdle
    /\ ListIdle /\ OpsIdle /\ ArgsIdle
    /\ new_opts \in
         [required_ok : BOOLEAN,
          optional : SUBSET {"session_token", "default_bucket", "ca_file",
                             "ca_path", "proxy"},
          backend : {"S3_HTTP_BACKEND_CURL_EASY", "S3_HTTP_BACKEND_CURL_MULTI",
                     "unknown"}]
    /\ heap = NoHeap
    /\ out_client = "unchanged"
    /\ worker_thread = FALSE
    /\ new_ret = "none"
    /\ client_phase = "none"

\* the strings s3_client_new copies (lines 255-300): the four required ones
\* and the optional ones that are not NULL in opts
Wanted(opts) == {"endpoint", "region", "access_key", "secret_key"}
                \cup opts.optional

\* position of a string in the order of copying
RECURSIVE StringIndex(_, _)
StringIndex(name, i) ==
    IF i > Len(StringOrder) THEN i
    ELSE IF StringOrder[i] = name THEN i ELSE StringIndex(name, i + 1)

\* the strings copied before the copy of `fault` fails (all wanted ones when
\* no copy fails)
Copied(opts, fault) ==
    IF fault \in Wanted(opts)
    THEN {n \in Wanted(opts) : StringIndex(n, 1) < StringIndex(fault, 1)}
    ELSE Wanted(opts)

\* s3_client_free_strings lines 195-200: the members it hands to s3_free
s3_client_free_strings == {"endpoint", "region", "access_key", "secret_key",
                           "session_token", "default_bucket"}

\* the heap after the blocks of `got` were obtained and those of `freed`,
\* where they are not NULL, released
HeapAfter(hp, got, freed) ==
    [b \in Blocks |->
       [allocs |-> hp[b].allocs + (IF b \in got THEN 1 ELSE 0),
        frees |-> hp[b].frees
                  + (IF b \in freed /\ hp[b].allocs + (IF b \in got THEN 1 ELSE 0)
                                      > hp[b].frees
                     THEN 1 ELSE 0)]]

\* s3_http_easy_backend_new / s3_http_multi_backend_new: the kind returned
\* (OK: a backend exists), the blocks obtained, the blocks released again
backend_new(opts, fault) ==
    IF opts.backend = "unknown"
    THEN [code |-> S3_E_INVALID_ARG, got |-> {}, freed |-> {}, thread |-> FALSE]
    ELSE IF fault = "backend"
    THEN [code |-> S3_E_NOMEM, got |-> {}, freed |-> {}, thread |-> FALSE]
    ELSE IF opts.backend = "S3_HTTP_BACKEND_CURL_EASY"
    THEN [code |-> S3_E_OK, got |-> {"backend"}, freed |-> {}, thread |-> FALSE]
    ELSE IF fault = "curl_multi_init"
    THEN [code |-> S3_E_INIT, got |-> {"backend"}, freed |-> {"backend"},
          thread |-> FALSE]
    ELSE IF fault = "pthread_create"
    THEN [code |-> S3_E_INIT, got |-> {"backend", "curlm"},
          freed |-> {"backend", "curlm"}, thread |-> FALSE]
    ELSE [code |-> S3_E_OK, got |-> {"backend", "curlm"}, freed |-> {},
          thread |-> TRUE]

\* s3_client_new
s3_client_new ==
    /\ client_phase = "none" /\ new_ret = "none"
    /\ \E fault \in NewFaults :
         LET opts == new_opts
             strs == Copied(opts, fault)
             bk == backend_new(opts, fault)
             \* label fail, lines 324-335
             fail(code, got) ==
                 /\ new_ret' = code
                 /\ heap' = HeapAfter(heap, got \cup {"client"},
                                      s3_client_free_strings \cup {"client"})
                 /\ UNCHANGED <<out_client, worker_thread, client_phase>>
         IN
         IF ~opts.required_ok
         THEN /\ new_ret' = S3_E_INVALID_ARG
              /\ UNCHANGED <<heap, out_client, worker_thread, client_phase>>
         ELSE IF fault = "curl_global_init"
         THEN /\ new_ret' = S3_E_INIT
              /\ UNCHANGED <<heap, out_client, worker_thread, client_phase>>
         ELSE IF fault = "client"
         THEN /\ new_ret' = S3_E_NOMEM
              /\ UNCHANGED <<heap, out_client, worker_thread, client_phase>>
         ELSE IF fault \in Wanted(opts)
         THEN fail(S3_E_NOMEM, strs)
         ELSE IF bk.code # S3_E_OK
         THEN /\ new_ret' = bk.code
              /\ heap' = HeapAfter(HeapAfter(heap, bk.got, bk.freed),
                                   strs \cup {"client"},
                                   s3_client_free_strings \cup {"client"})
              /\ UNCHANGED <<out_client, worker_thread, client_phase>>
         ELSE /\ new_ret' = S3_E_OK
              /\ heap' = HeapAfter(heap, strs \cup bk.got \cup {"client"}, {})
              /\ out_client' = "client"
              /\ worker_thread' = bk.thread
              /\ client_phase' = "live"
    /\ UNCHANGED <<new_opts, NewRest>>

\* s3_client_delete: the backend's destroy (the worker is joined, the CURLM
\* cleaned up, the backend freed), s3_client_free_strings, the client freed
s3_client_delete ==
    /\ client_phase = "live"
    /\ heap' = HeapAfter(heap, {},
                         {"backend", "curlm", "client"}
                         \cup s3_client_free_strings)
    /\ worker_thread' = FALSE
    /\ client_phase' = "deleted"
    /\ UNCHANGED <<new_opts, out_client, new_ret, NewRest>>

NewNext == s3_client_new \/ s3_client_delete

SpecNew == NewInit /\ [][NewNext]_vars

(* ---- C14 ---- *)
\* C14: whenever s3_client_new has returned a kind other than OK, the
\* caller's client output is as it was, the worker thread does not exist and
\* every block obtained during the attempt has been freed.
C14_Original ==
    (new_ret # "none" /\ new_ret # S3_E_OK)
    => /\ out_client = "unchanged"
       /\ ~worker_thread
       /\ \A b \in Blocks : heap[b].frees = heap[b].allocs

(* ---- C15 ---- *)
\* C15: once the client is destroyed, each of the nine configuration strings
\* that was copied at creation has been freed exactly once.
C15_Original ==
    client_phase = "deleted"
    => \A n \in Strings : heap[n].allocs = 1 => heap[n].frees = 1

(* ============================ delete_objects ============================ *)

\* most entries of one delete_objects call
MaxObjs == 2

\* everything but the variables of the delete_objects call
DelRest == <<mvars, fvars, pvars, iovars, cvars, lvars, ovars, avars>>

\* keys and version ids of the entries: NULL, empty, plain, with each of the
\* characters the escaper knows, with an apostrophe, and one that already
\* contains an entity
DelKeys ==
    {NullStr, Str(<<>>), Str(<<"a">>), Str(<<"&", "b">>), Str(<<"<", ">">>),
     Str(<<"\"", "'">>), Str(<<"&", "l", "t", ";">>)}
DelVersions == {NullStr, Str(<<>>), Str(<<"v", "&">>)}
DelEntries == [key : DelKeys, version_id : DelVersions]

\* sequences of at most n entries
SeqsUpTo(S, n) == UNION {[1..k -> S] : k \in 0..n}

DelInit ==
    /\ MultiInit({0}) /\ FacadeIdle /\ MapIdle /\ IOIdle /\ NewIdle
    /\ ListIdle /\ OpsIdle /\ ArgsIdle
    /\ del_opts \in [objects_null : BOOLEAN,
                     objects : SeqsUpTo(DelEntries, MaxObjs),
                     quiet : BOOLEAN]
    /\ del_backend \in Backends
    /\ del_body = <<>>
    /\ del_sent = "none"
    /\ del_ret = "none"

\* an escaper that writes the entity of '<' for '>'
xml_entity_gt_as_lt(ch) ==
    CASE ch = "&" -> <<"&", "a", "m", "p", ";">>
      [] ch = "<" -> <<"&", "l", "t", ";">>
      [] ch = ">" -> <<"&", "l", "t", ";">>
      [] ch = "\"" -> <<"&", "q", "u", "o", "t", ";">>
      [] OTHER -> <<"?">>

\* s3_xml_append_escaped lines 98-107: the entity written for a special
\* character
xml_entity(ch) ==
    CASE ch = "&" -> <<"&", "a", "m", "p", ";">>
      [] ch = "<" -> <<"&", "l", "t", ";">>
      [] ch = ">" -> <<"&", "g", "t", ";">>
      [] ch = "\"" -> <<"&", "q", "u", "o", "t", ";">>
      [] OTHER -> <<"?">>

\* s3_xml_append_escaped lines 76-82: the position of the next special
\* character at or after p (Len(str) + 1: the terminating NUL)
RECURSIVE xml_next_special(_, _)
xml_next_special(str, p) ==
    IF p > Len(str) THEN p
    ELSE IF str[p] \in {"&", "<", ">", "\""} THEN p
    ELSE xml_next_special(str, p + 1)

\* s3_xml_append_escaped: buf after the loop has run from position p
RECURSIVE s3_xml_append_escaped(_, _, _)
s3_xml_append_escaped(buf, str, p) ==
    IF p > Len(str) THEN buf
    ELSE LET q == xml_next_special(str, p)
             buf1 == buf \o SubSeq(str, p, q - 1)
         IN IF q > Len(str) THEN buf1
            ELSE s3_xml_append_escaped(buf1 \o xml_entity(str[q]), str, q + 1)

DeleteOpen == "<Delete xmlns=\"http://s3.amazonaws.com/doc/2006-03-01/\">"

\* a builder that rejects only a NULL key
delete_key_rejected_null_only(obj) == obj.key.null

\* s3_build_delete_body line 388: the entry has no key
delete_key_rejected(obj) == obj.key.null \/ obj.key.chars = <<>>

\* s3_build_delete_body lines 385-413: the loop over the entries from
\* entry i on, then the closing tag.  The buffer is a sequence of pieces: a
\* tag, a run of layout characters, or one character of text.
RECURSIVE build_delete_objects(_, _, _)
build_delete_objects(objs, i, buf) ==
    IF i > Len(objs)
    THEN [code |-> S3_E_OK, buf |-> buf \o <<"</Delete>">>]
    ELSE
    LET obj == objs[i] IN
    IF delete_key_rejected(obj)
    THEN [code |-> S3_E_INVALID_ARG, buf |-> buf]
    ELSE
    LET b1 == s3_xml_append_escaped(
                  buf \o <<"  ", "<Object>", "\n", "    ", "<Key>">>,
                  obj.key.chars, 1)
              \o <<"</Key>", "\n">>
        b2 == IF ~obj.version_id.null /\ obj.version_id.chars # <<>>
              THEN s3_xml_append_escaped(b1 \o <<"    ", "<VersionId>">>,
                                         obj.version_id.chars, 1)
                   \o <<"</VersionId>", "\n">>
              ELSE b1
    IN build_delete_objects(objs, i + 1, b2 \o <<"  ", "</Object>", "\n">>)

\* s3_build_delete_body
s3_build_delete_body(opts) ==
    IF opts.objects_null \/ Len(opts.objects) = 0
    THEN [code |-> S3_E_INVALID_ARG, buf |-> <<>>]
    ELSE build_delete_objects(
             opts.objects, 1,
             <<DeleteOpen, "\n">>
             \o (IF opts.quiet
                 THEN <<"  ", "<Quiet>", "t", "r", "u", "e", "</Quiet>", "\n">>
                 ELSE <<>>))

\* s3_http_easy_delete_objects / s3_http_multi_delete_objects: the argument
\* check, the factory (s3_build_delete_body inside it), then the transport
DeleteObjectsCall ==
    /\ del_ret = "none"
    /\ LET opts == del_opts
           built == s3_build_delete_body(opts)
       IN
       IF opts.objects_null \/ Len(opts.objects) = 0
       THEN /\ del_ret' = S3_E_INVALID_ARG
            /\ UNCHANGED <<del_body, del_sent>>
       ELSE IF built.code # S3_E_OK
       THEN /\ del_ret' = built.code
            /\ UNCHANGED <<del_body, del_sent>>
       ELSE /\ del_body' = built.buf
            /\ IF del_backend = "easy"
               THEN \E o \in FacadeOutcomes :
                      /\ del_sent' = "performed"
                      /\ del_ret' = s3_http_easy_perform(o).code
               ELSE \E sub \in SubmitFates, o \in FacadeOutcomes :
                      /\ del_sent' = IF sub \in {"nomem", "stopping"}
                                     THEN "none" ELSE "enqueued"
                      /\ del_ret' = s3_http_multi_submit_and_wait(sub, o).code
    /\ UNCHANGED <<del_opts, del_backend, DelRest>>

DelNext == DeleteObjectsCall

SpecDel == DelInit /\ [][DelNext]_vars

(* ---- C16 ---- *)
\* the objects array is missing or empty, or some entry has no key
C16_Invalid(opts) ==
    \/ opts.objects_null
    \/ Len(opts.objects) = 0
    \/ \E i \in 1..Len(opts.objects) :
         opts.objects[i].key.null \/ opts.objects[i].key.chars = <<>>

C17_Layout == {"\n", "  ", "    "}
C17_NotLayout(piece) == piece \notin C17_Layout

\* a text with each of & < > " replaced by its entity, character by character
RECURSIVE C17_Escaped(_)
C17_Escaped(chars) ==
    IF chars = <<>> THEN <<>>
    ELSE (CASE Head(chars) = "&" -> <<"&", "a", "m", "p", ";">>
            [] Head(chars) = "<" -> <<"&", "l", "t", ";">>
            [] Head(chars) = ">" -> <<"&", "g", "t", ";">>
            [] Head(chars) = "\"" -> <<"&", "q", "u", "o", "t", ";">>
            [] OTHER -> <<Head(chars)>>)
         \o C17_Escaped(Tail(chars))

\* a text with each entity replaced by its character, read once from the left
RECURSIVE C17_Unescape(_)
C17_Unescape(t) ==
    LET Starts(e) == Len(t) >= Len(e) /\ SubSeq(t, 1, Len(e)) = e
        Rest(e) == SubSeq(t, Len(e) + 1, Len(t))
    IN
    IF t = <<>> THEN <<>>
    ELSE IF Starts(<<"&", "a", "m", "p", ";">>)
    THEN <<"&">> \o C17_Unescape(Rest(<<"&", "a", "m", "p", ";">>))
    ELSE IF Starts(<<"&", "l", "t", ";">>)
    THEN <<"<">> \o C17_Unescape(Rest(<<"&", "l", "t", ";">>))
    ELSE IF Starts(<<"&", "g", "t", ";">>)
    THEN <<">">> \o C17_Unescape(Rest(<<"&", "g", "t", ";">>))
    ELSE IF Starts(<<"&", "q", "u", "o", "t", ";">>)
    THEN <<"\"">> \o C17_Unescape(Rest(<<"&", "q", "u", "o", "t", ";">>))
    ELSE <<Head(t)>> \o C17_Unescape(Tail(t))

\* the Object elements of the entries from entry i on
RECURSIVE C17_Objects(_, _)
C17_Objects(objs, i) ==
    IF i > Len(objs) THEN <<>>
    ELSE <<"<Object>", "<Key>">> \o C17_Escaped(objs[i].key.chars)
         \o <<"</Key>">>
         \o (IF ~objs[i].version_id.null /\ objs[i].version_id.chars # <<>>
             THEN <<"<VersionId>">> \o C17_Escaped(objs[i].version_id.chars)
                  \o <<"</VersionId>">>
             ELSE <<>>)
         \o <<"</Object>">>
         \o C17_Objects(objs, i + 1)

\* the documented body
C17_Expected(opts) ==
    <<DeleteOpen>>
    \o (IF opts.quiet THEN <<"<Quiet>", "t", "r", "u", "e", "</Quiet>">>
        ELSE <<>>)
    \o C17_Objects(opts.objects, 1)
    \o <<"</Delete>">>

\* first position at or after i that holds the piece tok
RECURSIVE C17_Find(_, _, _)
C17_Find(body, i, tok) ==
    IF i > Len(body) THEN i
    ELSE IF body[i] = tok THEN i ELSE C17_Find(body, i + 1, tok)

\* the contents of the elements open ... close of the body, in order
RECURSIVE C17_Texts(_, _, _, _)
C17_Texts(body, i, open, close) ==
    LET a == C17_Find(body, i, open)
        z == C17_Find(body, a, close)
    IN IF a > Len(body) THEN <<>>
       ELSE <<SubSeq(body, a + 1, z - 1)>> \o C17_Texts(body, z + 1, open, close)

\* the version ids that are sent, in input order
RECURSIVE C17_Versions(_, _)
C17_Versions(objs, i) ==
    IF i > Len(objs) THEN <<>>
    ELSE (IF ~objs[i].version_id.null /\ objs[i].version_id.chars # <<>>
          THEN <<objs[i].version_id.chars>> ELSE <<>>)
         \o C17_Versions(objs, i + 1)

\* C17: for a non-empty input whose entries all have non-empty keys the body
\* that was built consists, apart from line breaks and indentation that
\* stand only between elements, of exactly: the Delete root element with the
\* S3 namespace, a Quiet element iff quiet is set, one Object element per
\* entry in input order holding Key and (iff version_id is non-empty)
\* VersionId, and the closing tag; in Key and VersionId each of & < > " is
\* replaced by its entity once and every other character is copied, and
\* un-escaping the text of each Key and VersionId gives back the input string.
C17_Theorem ==
    (del_ret # "none" /\ ~C16_Invalid(del_opts))
    => /\ SelectSeq(del_body, C17_NotLayout) = C17_Expected(del_opts)
       /\ \A i \in 1..Len(del_body) :
            del_body[i] \in C17_Layout
            => /\ i > 1
               /\ del_body[i - 1] \in
                    C17_Layout \cup {DeleteOpen, "</Quiet>", "<Object>", "</Key>",
                                     "</VersionId>", "</Object>"}
       /\ LET keys == C17_Texts(del_body, 1, "<Key>", "</Key>")
              vers == C17_Texts(del_body, 1, "<VersionId>", "</VersionId>")
              sent == C17_Versions(del_opts.objects, 1)
          IN /\ Len(keys) = Len(del_opts.objects)
             /\ \A k \in 1..Len(keys) :
                  C17_Unescape(keys[k]) = del_opts.objects[k].key.chars
             /\ Len(vers) = Len(sent)
             /\ \A k \in 1..Len(vers) : C17_Unescape(vers[k]) = sent[k]

\* a body was built for two entries, quiet set: a key holding < and >, then a
\* key that already holds an entity together with a version id holding &
C17_Witness ==
    /\ del_ret # "none"
    /\ del_body # <<>>
    /\ del_opts.quiet
    /\ Len(del_opts.objects) = 2
    /\ del_opts.objects[1].key = Str(<<"<", ">">>)
    /\ del_opts.objects[2].key = Str(<<"&", "l", "t", ";">>)
    /\ del_opts.objects[2].version_id = Str(<<"v", "&">>)

(* ======================= ListObjectsV2 response ========================= *)

\* most <Contents> blocks of one response
MaxBlocks == 2
\* s3_parse_list_response line 95: first capacity of the objects array
FirstCapacity == 16

\* everything but the variables of the response and its result
ListRest == <<mvars, fvars, pvars, iovars, cvars, dvars, ovars, avars>>

\* the fields of an object that are kept as strings, and all its fields
StringFields == {"Key", "ETag", "LastModified", "StorageClass"}
ObjectFields == StringFields \cup {"Size"}

\* the pieces of a document: a tag, or the text of the j-th element inside
\* block blk (blk 0: outside the blocks); num: what strtoull makes of it
Tag(name) == [kind |-> "tag", name |-> name, blk |-> 0, j |-> 0, num |-> 0]
Text(name, blk, j) ==
    [kind |-> "text", name |-> name, blk |-> blk, j |-> j, num |-> 10 * blk + j]
Open(name) == Tag("<" \o name \o ">")
Close(name) == Tag("</" \o name \o ">")

\* the elements inside a <Contents> block, in the order they stand there:
\* all five, none, the key alone, all but the ETag, the key twice
BlockShapes ==
    {<<"Key", "Size", "ETag", "LastModified", "StorageClass">>,
     <<>>,
     <<"Key">>,
     <<"Key", "Size", "LastModified", "StorageClass">>,
     <<"Key", "Key", "Size">>}

\* the pieces of block blk from its j-th element on
RECURSIVE BlockBody(_, _, _)
BlockBody(shape, blk, j) ==
    IF j > Len(shape) THEN <<>>
    ELSE <<Open(shape[j]), Text(shape[j], blk, j), Close(shape[j])>>
         \o BlockBody(shape, blk, j + 1)

\* the pieces of the blocks from block blk on; the last one may lack its
\* closing tag
RECURSIVE BlocksXml(_, _, _)
BlocksXml(blocks, blk, last_complete) ==
    IF blk > Len(blocks) THEN <<>>
    ELSE <<Open("Contents")>> \o BlockBody(blocks[blk], blk, 1)
         \o (IF blk < Len(blocks) \/ last_complete
             THEN <<Close("Contents")>> ELSE <<>>)
         \o BlocksXml(blocks, blk + 1, last_complete)

\* the response document
Xml(in) ==
    <<Open("ListBucketResult")>>
    \o (IF in.truncated = "absent" THEN <<>>
        ELSE <<Open("IsTruncated"),
               [Text("IsTruncated", 0, 0) EXCEPT !.name = in.truncated],
               Close("IsTruncated")>>)
    \o (IF in.token
        THEN <<Open("NextContinuationToken"),
               Text("NextContinuationToken", 0, 0),
               Close("NextContinuationToken")>>
        ELSE <<>>)
    \o BlocksXml(in.blocks, 1, in.last_complete)
    \o <<Close("ListBucketResult")>>

ListInit ==
    /\ MultiInit({0}) /\ FacadeIdle /\ MapIdle /\ IOIdle /\ NewIdle /\ DelIdle
    /\ OpsIdle /\ ArgsIdle
    /\ p_in \in [truncated : {"absent", "true", "false"},
                 token : BOOLEAN,
                 blocks : SeqsUpTo(BlockShapes, MaxBlocks),
                 last_complete : BOOLEAN,
                 fail : 0..(3 + 5 * MaxBlocks)]
    /\ p_out = ZeroResult
    /\ p_heap = <<>>
    /\ p_ret = "none"
    /\ p_err = S3_ERROR_INIT
    /\ p_failed = FALSE
    /\ p_destroys = 0

\* strstr: the first position at or after i that holds the piece tok
\* (NULL: none)
RECURSIVE strstr(_, _, _)
strstr(doc, i, tok) ==
    IF i > Len(doc) THEN NULL
    ELSE IF doc[i] = tok THEN i ELSE strstr(doc, i + 1, tok)

\* the allocator's state during one parse: requests made, the request that
\* fails, the blocks handed out, whether a request failed, the error record
NewAllocState(fail) ==
    [n |-> 0, fail |-> fail, heap |-> <<>>, failed |-> FALSE,
     err |-> s3_error_clear]

\* s3_alloc: the state afterwards and the block (NULL: the request failed)
p_alloc(st, contents) ==
    IF st.n + 1 = st.fail
    THEN [st |-> [st EXCEPT !.n = @ + 1, !.failed = TRUE], ptr |-> NULL]
    ELSE [st |-> [st EXCEPT !.n = @ + 1,
                            !.heap = Append(@, [frees |-> 0,
                                                contents |-> contents])],
          ptr |-> Len(st.heap) + 1]

\* s3_free of a block that is not NULL
p_free(hp, ptr) == [hp EXCEPT ![ptr].frees = @ + 1]

\* s3_free of each block of a sequence, NULL skipped
RECURSIVE p_free_all(_, _)
p_free_all(hp, ptrs) ==
    IF ptrs = <<>> THEN hp
    ELSE p_free_all(IF Head(ptrs) = NULL THEN hp
                    ELSE p_free(hp, Head(ptrs)),
                    Tail(ptrs))

\* s3_xml_get_text_between: the copy of the text between the first open tag
\* at or after start and the first close tag after it
s3_xml_get_text_between(st, doc, start, name) ==
    LET p1 == strstr(doc, start, Open(name))
        p2 == IF p1 = NULL THEN NULL ELSE strstr(doc, p1 + 1, Close(name))
    IN
    IF p1 = NULL \/ p2 = NULL THEN [st |-> st, ptr |-> NULL]
    ELSE LET a == p_alloc(st, SubSeq(doc, p1 + 1, p2 - 1)) IN
         IF a.ptr = NULL
         THEN [st |-> [a.st EXCEPT !.err =
                          s3_error_set(S3_E_NOMEM,
                                       "Out of memory in xml_get_text_between",
                                       ENOMEM, 0, 0)],
               ptr |-> NULL]
         ELSE a

\* the blocks an object's members point to
ItemPtrs(item) ==
    <<item.key, item.etag, item.last_modified, item.storage_class>>
RECURSIVE ItemsPtrs(_)
ItemsPtrs(items) ==
    IF items = <<>> THEN <<>>
    ELSE ItemPtrs(Head(items)) \o ItemsPtrs(Tail(items))

\* s3_list_objects_result_destroy: the heap afterwards (the result itself
\* becomes ZeroResult)
s3_list_objects_result_destroy(hp, res) ==
    p_free_all(hp,
               (IF res.objects # NULL
                THEN ItemsPtrs(SubSeq(res.items, 1, res.count))
                     \o <<res.objects>>
                ELSE <<>>)
               \o <<res.next_continuation_token>>)

\* strtoull of the copied text
strtoull(hp, ptr) ==
    IF hp[ptr].contents = <<>> THEN 0 ELSE hp[ptr].contents[1].num

\* s3_parse_list_response lines 87-159: the loop over the <Contents>
\* blocks from position p on.  acc: the array (block, members, capacity)
\* and what the caller's result holds so far.
RECURSIVE parse_contents(_, _, _, _)
parse_contents(doc, p, st, acc) ==
    LET block_start == strstr(doc, p, Open("Contents"))
        block_end == IF block_start = NULL THEN NULL
                     ELSE strstr(doc, block_start, Close("Contents"))
        finished ==
            [code |-> S3_E_OK, st |-> st,
             out |-> [acc.out EXCEPT !.objects = acc.objects,
                                     !.items = acc.items,
                                     !.count = Len(acc.items)]]
    IN
    IF block_start = NULL \/ block_end = NULL THEN finished
    ELSE
    LET grow == Len(acc.items) = acc.capacity
        a == IF grow THEN p_alloc(st, <<>>) ELSE [st |-> st, ptr |-> acc.objects]
    IN
    IF a.ptr = NULL
    THEN \* lines 99-109
         [code |-> S3_E_NOMEM,
          st |-> [a.st EXCEPT
                    !.err = s3_error_set(S3_E_NOMEM,
                                "Out of memory in s3_parse_list_response",
                                ENOMEM, 0, 0),
                    !.heap = s3_list_objects_result_destroy(
                                 @, [acc.out EXCEPT
                                       !.objects = acc.objects,
                                       !.items = acc.items,
                                       !.count = Len(acc.items)])],
          out |-> acc.out]
    ELSE
    LET st0 == IF grow /\ acc.objects # NULL
               THEN [a.st EXCEPT !.heap = p_free(@, acc.objects)]
               ELSE a.st
        new_cap == IF ~grow THEN acc.capacity
                   ELSE IF acc.capacity # 0 THEN acc.capacity * 2
                   ELSE FirstCapacity
        k == s3_xml_get_text_between(st0, doc, block_start, "Key")
        z == s3_xml_get_text_between(k.st, doc, block_start, "Size")
        zst == IF z.ptr = NULL THEN z.st
               ELSE [z.st EXCEPT !.heap = p_free(@, z.ptr)]
        e == s3_xml_get_text_between(zst, doc, block_start, "ETag")
        m == s3_xml_get_text_between(e.st, doc, block_start, "LastModified")
        c == s3_xml_get_text_between(m.st, doc, block_start, "StorageClass")
        obj == [key |-> k.ptr,
                size |-> IF z.ptr = NULL THEN 0 ELSE strtoull(z.st.heap, z.ptr),
                etag |-> e.ptr, last_modified |-> m.ptr,
                storage_class |-> c.ptr]
    IN parse_contents(doc, block_end + 1, c.st,
                      [acc EXCEPT !.objects = a.ptr,
                                  !.items = Append(@, obj),
                                  !.capacity = new_cap])

\* s3_parse_list_response for a document that is not empty
s3_parse_list(doc, fail) ==
    LET t == s3_xml_get_text_between(NewAllocState(fail), doc, 1, "IsTruncated")
        is_truncated == t.ptr # NULL
                        /\ t.st.heap[t.ptr].contents # <<>>
                        /\ t.st.heap[t.ptr].contents[1].name \in {"true", "True"}
        tst == IF t.ptr = NULL THEN t.st
               ELSE [t.st EXCEPT !.heap = p_free(@, t.ptr)]
        token == s3_xml_get_text_between(tst, doc, 1, "NextContinuationToken")
    IN parse_contents(doc, 1, token.st,
                      [objects |-> NULL, items |-> <<>>, capacity |-> 0,
                       out |-> [ZeroResult EXCEPT
                                  !.is_truncated = is_truncated,
                                  !.next_continuation_token = token.ptr]])

\* list_objects after a transfer that succeeded: the response is parsed
\* into the caller's result and the parser's code is returned
ListParse ==
    /\ p_ret = "none"
    /\ LET r == s3_parse_list(Xml(p_in), p_in.fail) IN
       /\ p_out' = r.out
       /\ p_heap' = r.st.heap
       /\ p_ret' = r.code
       /\ p_err' = r.st.err
       /\ p_failed' = r.st.failed
    /\ UNCHANGED <<p_in, p_destroys, ListRest>>

\* most calls of s3_list_objects_result_destroy on one result
MaxDestroys == 2

\* the caller releases the result
ListResultDestroy ==
    /\ p_ret # "none"
    /\ p_destroys < MaxDestroys
    /\ p_heap' = s3_list_objects_result_destroy(p_heap, p_out)
    /\ p_out' = ZeroResult
    /\ p_destroys' = p_destroys + 1
    /\ UNCHANGED <<p_in, p_ret, p_err, p_failed, ListRest>>

ListNext == ListParse \/ ListResultDestroy

SpecList == ListInit /\ [][ListNext]_vars

(* ---- C18 ---- *)
\* the member of an object that holds a field
C18_Member(item, f) ==
    CASE f = "Key" -> item.key
      [] f = "ETag" -> item.etag
      [] f = "LastModified" -> item.last_modified
      [] f = "StorageClass" -> item.storage_class
      [] f = "Size" -> item.size

\* the positions inside a block at which an element named f stands
C18_Places(shape, f) == {j \in 1..Len(shape) : shape[j] = f}
C18_First(S) == CHOOSE j \in S : \A i \in S : j <= i

\* the number of complete <Contents> blocks of the document
C18_Complete(in) ==
    IF in.last_complete \/ in.blocks = <<>> THEN Len(in.blocks)
    ELSE Len(in.blocks) - 1

\* C18: a parse without allocation failure returns one object per complete
\* <Contents> block, in document order; each of Key, Size, ETag, LastModified
\* and StorageClass of the k-th object is the text of the first element of
\* that name inside the k-th block, and is NULL (Size: 0) when the k-th block
\* has no such element.
C18_Original ==
    (p_ret = S3_E_OK /\ ~p_failed /\ p_destroys = 0)
    => /\ p_out.count = C18_Complete(p_in)
       /\ Len(p_out.items) = p_out.count
       /\ \A k \in 1..p_out.count : \A f \in ObjectFields :
            LET places == C18_Places(p_in.blocks[k], f)
                member == C18_Member(p_out.items[k], f)
            IN IF f = "Size"
               THEN member = (IF places = {} THEN 0
                              ELSE Text(f, k, C18_First(places)).num)
               ELSE IF places = {} THEN member = NULL
               ELSE /\ member # NULL
                    /\ p_heap[member].contents
                         = <<Text(f, k, C18_First(places))>>

(* ---- C19 ---- *)
\* C19: when an allocation failed while the response was parsed (the objects
\* array, or the copy of a string or of the token), list_objects has returned
\* NOMEM, not OK.
C19_Original ==
    (p_ret # "none" /\ p_failed) => p_ret = S3_E_NOMEM

(* ---- C20 ---- *)
\* C20: after list_objects has failed in the parser every block the parser
\* obtained has been freed exactly once and the caller's result refers to
\* none of them; in every state no block has been freed twice; after
\* s3_list_objects_result_destroy all members of the result are zero, so that
\* destroying it again frees nothing.
C20_Original ==
    /\ (p_ret # "none" /\ p_ret # S3_E_OK)
         => /\ \A b \in 1..Len(p_heap) : p_heap[b].frees = 1
            /\ p_out.objects = NULL
            /\ p_out.next_continuation_token = NULL
    /\ \A b \in 1..Len(p_heap) : p_heap[b].frees <= 1
    /\ p_destroys >= 1 => p_out = ZeroResult


(* ========= multiplexed backend: whole put_fd and get_fd calls =========== *)

\* operations one caller starts
MaxCallOps == 2

\* how building the request can end: the handle cannot be allocated, the URL
\* cannot be built (no bucket, or no memory) after it was allocated, success
FactoryFates == {"alloc", "bucket", "url_nomem", "built"}

\* s3_easy_factory_new_put_fd and _get_fd as their caller sees them: the code,
\* the error record, whether *out_handle was set, whether a handle existed and
\* how often the factory itself destroyed it (the fail: label)
s3_easy_factory_new(fate) ==
    IF fate = "alloc"
    THEN [code |-> S3_E_NOMEM,
          err |-> s3_error_set(S3_E_NOMEM, "Failed to allocate s3_easy_handle",
                               ENOMEM, 0, 0),
          out |-> FALSE, created |-> FALSE, destroys |-> 0]
    ELSE IF fate = "bucket"
    THEN [code |-> S3_E_INVALID_ARG,
          err |-> s3_error_set(S3_E_INVALID_ARG, "bucket must be set", 0, 0, 0),
          out |-> FALSE, created |-> TRUE, destroys |-> 1]
    ELSE IF fate = "url_nomem"
    THEN [code |-> S3_E_NOMEM,
          err |-> s3_error_set(S3_E_NOMEM, "Out of memory in s3_build_url",
                               ENOMEM, 0, 0),
          out |-> FALSE, created |-> TRUE, destroys |-> 1]
    ELSE [code |-> S3_E_OK, err |-> s3_error_clear,
          out |-> TRUE, created |-> TRUE, destroys |-> 0]

\* an operation that submits whatever the factory answered
op_returns_never(code) == FALSE

\* http_multi.c lines 324-325, 355-356: if (code != S3_E_OK) return code
op_returns(code) == code # S3_E_OK

\* a destroy that releases nothing
s3_easy_handle_leak(hd) == [hd EXCEPT !.pc = "none"]

\* s3_easy_handle_destroy(h), after which the operation returns
s3_easy_handle_destroy(hd) ==
    [hd EXCEPT !.pc = "none", !.live = FALSE, !.destroys = @ + 1]

\* lines 322-325 (353-356): build the request; on failure return the code
OpFactory(c) ==
    /\ handle[c].pc = "none" /\ cpc[c] = "idle" /\ mb_alive
    /\ handle[c].ops < MaxCallOps
    /\ \E fate \in FactoryFates :
         LET f == s3_easy_factory_new(fate) IN
         /\ f.code = S3_E_OK => calls[c] < MaxCalls
         /\ IF op_returns(f.code)
            THEN /\ handle' = [handle EXCEPT ![c] =
                                 [pc |-> "none", created |-> f.created,
                                  live |-> FALSE, destroys |-> f.destroys,
                                  submits |-> 0, ops |-> @.ops + 1,
                                  factory |-> f.code, failed |-> TRUE]]
                 /\ ret' = [ret EXCEPT ![c] = [code |-> f.code, err |-> f.err]]
            ELSE /\ handle' = [handle EXCEPT ![c] =
                                 [pc |-> "built", created |-> f.created,
                                  live |-> f.out, destroys |-> f.destroys,
                                  submits |-> 0, ops |-> @.ops + 1,
                                  factory |-> f.code, failed |-> @.failed]]
                 /\ ret' = [ret EXCEPT ![c] = NoRet]
    /\ UNCHANGED <<stop, pending_head, pending_tail, running, mutex, sleeping,
                   multi, mb_alive, max_total_connections, req, cpc, wpc, dpc,
                   cur, still_running, pd_pass, calls, hist, nAccepted,
                   nMarked, nDelivered, enq_log, reg_log>>

\* line 327 (358): s3_http_multi_submit_and_wait is entered with h
OpSubmit(c) ==
    /\ handle[c].pc = "built"
    /\ SubmitNoMem(c) \/ SubmitAlloc(c)
    /\ handle' = [handle EXCEPT ![c].pc = "submitted", ![c].submits = @ + 1]
    /\ UNCHANGED <<enq_log, reg_log>>

\* the requests of the callers in cs, each named by its caller and the number
\* of that caller's call
Requests(cs) == [i \in 1..Len(cs) |-> <<cs[i], calls[cs[i]]>>]

\* lines 273-282 with the order of the appends recorded
OpEnqueue(c) ==
    /\ SubmitEnqueue(c)
    /\ enq_log' = enq_log \o Requests(<<c>>)
    /\ UNCHANGED <<handle, reg_log>>

\* the rest of s3_http_multi_submit_and_wait
OpWait(c) ==
    /\ \/ SubmitReject(c)
       \/ SubmitWait(c)
       \/ SubmitWake(c)
       \/ SubmitSeeDone(c)
       \/ SubmitReturn(c)
    /\ UNCHANGED ovars

\* line 329 (363): submit_and_wait has returned, s3_easy_handle_destroy(h)
OpHandleDestroy(c) ==
    /\ handle[c].pc = "submitted" /\ cpc[c] = "idle"
    /\ handle' = [handle EXCEPT ![c] = s3_easy_handle_destroy(@)]
    /\ UNCHANGED <<mvars, enq_log, reg_log>>

\* lines 208-210 with the order of the removals recorded
OpFlush ==
    /\ \E mc \in [SeqToSet(ListFrom(pending_head, req)) -> AddResults] :
         LET order == s3_multi_backend_flush_pending_locked(FlushStart, mc).order
         IN /\ WorkerFlushWith(mc)
            /\ reg_log' = reg_log
                              \o Requests([i \in 1..Len(order) |-> order[i][1]])
    /\ UNCHANGED <<handle, enq_log>>

\* the worker's other steps
OpWorker ==
    /\ \/ WorkerLock
       \/ WorkerWait
       \/ WorkerExit
       \/ WorkerPerformIdle
       \/ WorkerPerformProgress
       \/ ProcessDoneRead
       \/ ProcessDoneLock
       \/ ProcessDonePublish
       \/ ProcessDoneEnd
       \/ WorkerPoll
    /\ UNCHANGED ovars

\* s3_http_multi_destroy up to pthread_join
OpDestroy ==
    /\ \/ DestroyLock
       \/ DestroyStop
       \/ DestroyJoin
    /\ UNCHANGED ovars

\* lines 487-505: the loop over what is left on the pending list destroys
\* each record's prepared request (line 498) and frees the record (line 500)
OpDestroyCleanup ==
    /\ DestroyCleanup
    /\ handle' = [c \in Callers |->
                    IF c \in SeqToSet(ListFrom(pending_head, req))
                    THEN s3_easy_handle_destroy(handle[c]) ELSE handle[c]]
    /\ UNCHANGED <<enq_log, reg_log>>

OpsRest == <<fvars, pvars, iovars, cvars, dvars, lvars, avars>>

OpsNext ==
    /\ \/ \E c \in Callers : OpFactory(c)
       \/ \E c \in Callers : OpSubmit(c)
       \/ \E c \in Callers : OpEnqueue(c)
       \/ \E c \in Callers : OpWait(c)
       \/ \E c \in Callers : OpHandleDestroy(c)
       \/ OpFlush
       \/ OpWorker
       \/ OpDestroy
       \/ OpDestroyCleanup
    /\ UNCHANGED OpsRest

SpecOps == Init /\ [][OpsNext]_vars

\* the steps of a submission once it has started
OpProgress(c) ==
    \/ OpEnqueue(c)
    \/ /\ \/ SubmitReject(c)
          \/ SubmitWait(c)
          \/ SubmitSeeDone(c)
          \/ SubmitReturn(c)
       /\ UNCHANGED ovars

\* the same scheduling as Fairness, for whole operations
OpsFairness ==
    /\ \A c \in Callers : WF_vars(OpProgress(c) /\ UNCHANGED OpsRest)
    /\ \A c \in Callers :
         SF_vars(SubmitWake(c) /\ UNCHANGED ovars /\ UNCHANGED OpsRest)
    /\ WF_vars((OpFlush \/ (WorkerProgress /\ UNCHANGED ovars))
                  /\ UNCHANGED OpsRest)
    /\ SF_vars((WorkerLock \/ ProcessDoneLock) /\ UNCHANGED ovars
                  /\ UNCHANGED OpsRest)
    /\ SF_vars(WorkerPerformProgress /\ UNCHANGED ovars /\ UNCHANGED OpsRest)
    /\ WF_vars(DestroyStop /\ UNCHANGED ovars /\ UNCHANGED OpsRest)

SpecOpsFair == Init /\ [][OpsNext]_vars /\ OpsFairness

(* ================ claims: whole operations, multiplexed ================= *)

Referenced ==
    {c \in Callers : \/ multi[c].st # "none"
                     \/ cur.r = c
                     \/ c \in SeqToSet(ListFrom(pending_head, req))}

\* C22: every prepared request has one owner and is destroyed exactly once:
\* by the factory when construction fails, else by the operation after
\* s3_http_multi_submit_and_wait has returned; it is submitted at most once;
\* it is never destroyed while its handle is in the CURLM or its record is
\* queued; and once the worker has published done it holds no reference to
\* the record or the request and changes neither.
C22_Theorem ==
    /\ [](\A c \in Callers :
            /\ handle[c].destroys <= 1
            /\ handle[c].submits <= 1
            /\ (handle[c].created /\ handle[c].pc = "none") =>
                  (handle[c].destroys = 1 /\ ~handle[c].live)
            /\ handle[c].pc \in {"built", "submitted"} =>
                  (handle[c].live /\ handle[c].destroys = 0)
            /\ cpc[c] # "idle" => handle[c].pc = "submitted"
            /\ c \in Referenced =>
                  (handle[c].live /\ req[c].live /\ ~req[c].done))
    /\ [][\A c \in Callers :
            /\ (handle[c].live /\ ~handle'[c].live) =>
                  /\ handle[c].pc = "submitted" /\ handle[c].submits = 1
                  /\ cpc[c] = "idle" /\ ret[c] # NoRet
                  /\ ~req[c].live /\ c \notin Referenced
            /\ (handle'[c].ops # handle[c].ops /\ handle'[c].factory # S3_E_OK) =>
                  handle'[c].destroys = (IF handle'[c].created THEN 1 ELSE 0)
            /\ (req[c].live /\ req[c].done /\ req'[c] # req[c]) =>
                  (cpc[c] = "copy" /\ req'[c] = NoReq)]_vars

\* one caller's request went through the worker and was destroyed by the
\* operation, the other caller's request was destroyed by the factory
C22_Witness ==
    \E c, d \in Callers :
        /\ handle[c].pc = "none" /\ handle[c].submits = 1
        /\ handle[c].destroys = 1 /\ hist[c].doneBy = "harvest"
        /\ ret[c] = hist[c].wrote
        /\ handle[d].created /\ handle[d].factory = S3_E_NOMEM
        /\ handle[d].destroys = 1 /\ handle[d].submits = 0


(* ============ put_fd and get_fd: arguments, factory, transfer =========== *)

\* the client's endpoint (s3_client_new refuses a client without one)
Endpoint == Str(<<"http://host">>)

ArgsRest == <<mvars, fvars, pvars, iovars, cvars, dvars, lvars, ovars>>

\* calls with a bad and a good descriptor, a zero and a positive size, with
\* and without bucket, key and default bucket, with the handle allocation
\* failing or not, and two answers of the server
ArgsInit ==
    /\ MultiInit({0}) /\ FacadeIdle /\ MapIdle
    /\ IOIdle /\ NewIdle /\ DelIdle /\ ListIdle /\ OpsIdle
    /\ a_in \in [op : {"put_fd", "get_fd"},
                 backend : Backends,
                 fd : {-1, 3},
                 size : {0, 1},
                 bucket : {NullStr, Str(<<"b">>)},
                 key : {NullStr, Str(<<"k">>)},
                 default_bucket : {NullStr, Str(<<"d">>)},
                 alloc_ok : BOOLEAN,
                 o : XferOutcomes]
    /\ a_out = NoArgsOut

\* s3_build_url(client, bucket, key): the bucket defaults to the client's, a
\* missing bucket is an error, a missing key gives the URL of the bucket
s3_build_url(endpoint, default_bucket, bucket, key) ==
    LET b == IF bucket.null THEN default_bucket ELSE bucket IN
    IF endpoint.null
    THEN [code |-> S3_E_INVALID_ARG,
          err |-> s3_error_set(S3_E_INVALID_ARG, "endpoint must be set", 0, 0, 0),
          url |-> <<>>]
    ELSE IF b.null
    THEN [code |-> S3_E_INVALID_ARG,
          err |-> s3_error_set(S3_E_INVALID_ARG, "bucket must be set", 0, 0, 0),
          url |-> <<>>]
    ELSE [code |-> S3_E_OK, err |-> s3_error_clear,
          url |-> endpoint.chars \o <<"/">> \o b.chars
                    \o (IF key.null THEN <<>> ELSE <<"/">> \o key.chars)]

\* the argument check of the two backends' put_fd (lines 110, 316) and
\* get_fd (lines 141, 347), repeated by the factories (lines 443, 529)
fd_args_invalid(op, fd, size) ==
    IF op = "put_fd" THEN fd < 0 \/ size = 0 ELSE fd < 0

fd_args_message(op) ==
    IF op = "put_fd" THEN "invalid fd or size for PUT" ELSE "invalid fd for GET"

\* the vtable's put_fd or get_fd of either backend, from the argument check to
\* the destruction of the request
ArgsCall ==
    /\ a_in.op # "none" /\ a_out.code = "none"
    /\ a_out' =
         IF fd_args_invalid(a_in.op, a_in.fd, a_in.size)
         THEN [NoArgsOut EXCEPT
                 !.code = S3_E_INVALID_ARG,
                 !.err = s3_error_set(S3_E_INVALID_ARG, fd_args_message(a_in.op),
                                      0, 0, 0)]
         ELSE IF ~a_in.alloc_ok
         THEN [NoArgsOut EXCEPT
                 !.code = S3_E_NOMEM,
                 !.err = s3_error_set(S3_E_NOMEM,
                                      "Failed to allocate s3_easy_handle",
                                      ENOMEM, 0, 0)]
         ELSE LET u == s3_build_url(Endpoint, a_in.default_bucket, a_in.bucket,
                                    a_in.key)
              IN IF u.code # S3_E_OK
                 THEN [NoArgsOut EXCEPT !.code = u.code, !.err = u.err,
                                        !.destroyed = TRUE]
                 ELSE LET r == IF a_in.backend = "easy"
                               THEN s3_http_easy_perform(a_in.o)
                               ELSE s3_http_multi_submit_and_wait("harvest", a_in.o)
                      IN [code |-> r.code, err |-> r.err, built |-> TRUE,
                          url |-> u.url, performed |-> TRUE, destroyed |-> TRUE]
    /\ UNCHANGED <<a_in, ArgsRest>>

\* the caller looks at the result and prepares the next call
ArgsAgain ==
    /\ a_out.code # "none"
    /\ a_out' = NoArgsOut
    /\ a_in' \in [op : {a_in.op}, backend : {a_in.backend}, fd : {3}, size : {1},
                  bucket : {Str(<<"b">>)}, key : {a_in.key},
                  default_bucket : {a_in.default_bucket}, alloc_ok : {TRUE},
                  o : {a_in.o}]
    /\ a_in' # a_in
    /\ UNCHANGED ArgsRest

ArgsNext == ArgsCall \/ ArgsAgain

SpecArgs == ArgsInit /\ [][ArgsNext]_vars

\* C23 as stated: put_fd and get_fd validate their arguments before any
\* transport activity: a negative descriptor, a zero put size or a missing
\* object key yields INVALID_ARG, and no request is built, enqueued or
\* performed.
C23_Original ==
    (/\ a_out.code # "none"
     /\ \/ a_in.fd < 0
        \/ a_in.op = "put_fd" /\ a_in.size = 0
        \/ a_in.key.null)
    => (/\ a_out.code = S3_E_INVALID_ARG
        /\ a_out.err.code = S3_E_INVALID_ARG
        /\ ~a_out.built
        /\ ~a_out.performed)


(* ====== multiplexed backend: destroy while calls are still executing ===== *)

\* lines 487-505 as written: once pthread_join has returned, the CURLM, the
\* mutex and the condition variable are destroyed, what is left on the
\* pending list is freed and mb is freed, whatever the callers are doing
DestroyCleanupNow ==
    /\ dpc = "cleanup"
    /\ req' = [c \in Callers |->
                 IF c \in SeqToSet(ListFrom(pending_head, req)) THEN NoReq ELSE req[c]]
    /\ mb_alive' = FALSE
    /\ dpc' = "returned"
    /\ UNCHANGED <<stop, pending_head, pending_tail, running, mutex, sleeping,
                   multi, max_total_connections, cpc, wpc, cur, still_running,
                   pd_pass, calls, ret, hist, nAccepted, nMarked, nDelivered>>

\* a caller still inside s3_http_multi_submit_and_wait (lines 286-296) uses
\* the mutex after pthread_mutex_destroy and mb after it was freed: the
\* behaviour is undefined.  Either the memory still reads as before and the
\* caller goes on (its ordinary steps), or the call never returns.
SubmitUndefined(c) ==
    /\ ~mb_alive /\ cpc[c] \notin {"idle", "undefined"}
    /\ cpc' = [cpc EXCEPT ![c] = "undefined"]
    /\ UNCHANGED <<stop, pending_head, pending_tail, running, mutex, sleeping,
                   multi, mb_alive, max_total_connections, req, wpc, dpc, cur,
                   still_running, pd_pass, calls, ret, hist, nAccepted, nMarked,
                   nDelivered>>

TeardownNext ==
    /\ \/ \E c \in Callers : CallerStep(c)
       \/ \E c \in Callers : SubmitUndefined(c)
       \/ WorkerStep
       \/ DestroyLock
       \/ DestroyStop
       \/ DestroyJoin
       \/ DestroyCleanupNow
    /\ UNCHANGED <<fvars, pvars, xvars>>

SpecTeardown == Init /\ [][TeardownNext]_vars

\* the scheduling of Fairness; destroy, once started, is carried through
TeardownFairness ==
    /\ Fairness
    /\ WF_vars(DestroyJoin /\ UNCHANGED <<fvars, pvars, xvars>>)
    /\ WF_vars(DestroyCleanupNow /\ UNCHANGED <<fvars, pvars, xvars>>)

SpecTeardownFair == Init /\ [][TeardownNext]_vars /\ TeardownFairness

\* destroy, once it holds the mutex, returns
DestroyTerminates == (dpc = "locked") ~> (dpc = "returned")

\* C24 as stated: destroying the multiplexed backend always terminates: an
\* idle worker is woken by the stop broadcast and exits; requests pending or
\* in flight are carried to completion with their real transport outcome
\* (never dropped or cancelled), their callers return, and then the worker
\* exits and destroy returns, given that the transport finishes every
\* registered handle.
C24_Original ==
    /\ DestroyTerminates
    /\ [](wpc = "exited" =>
            \A c \in Callers : hist[c].accepted => hist[c].marks = 1)
    /\ [](dpc = "returned" =>
            \A c \in Callers :
               /\ ~hist[c].accepted
               /\ hist[c].dequeued => (cpc[c] = "idle" /\ ret[c] = hist[c].wrote))


(* ================== claims: the drain of the pending list =============== *)

\* C25: when curl_multi_add_handle fails for a request taken off the pending
\* list, the worker marks its record done with the transport error kind
\* (S3_E_CURL, the CURLM code in the record), does not count it in running,
\* wakes the waiter, and goes on to register the rest of the list in the same
\* drain.
C25_Theorem ==
    /\ [][(wpc = "locked" /\ wpc' = "perform") =>
            LET L == SeqToSet(ListFrom(pending_head, req))
                added == {c \in L : multi'[c].st = "active"}
            IN /\ running' = running + Cardinality(added)
               /\ reg_log' = reg_log \o Requests(ListFrom(pending_head, req))
               /\ \A c \in L \ added :
                    /\ req'[c].done
                    /\ req'[c].code = S3_E_CURL
                    /\ req'[c].err.code = S3_E_CURL
                    /\ req'[c].err.curl_code = CURLM_OUT_OF_MEMORY
                    /\ multi'[c].st = "none"
                    /\ CallerThread(c) \notin sleeping'
                    /\ hist'[c].doneBy = "flush" /\ hist'[c].marks = 1
               /\ \A c \in added :
                    /\ ~req'[c].done
                    /\ hist'[c].registered /\ hist'[c].doneBy = "none"]_vars
    /\ [](\A c \in Callers :
            (cpc[c] = "idle" /\ hist[c].doneBy = "flush"
                /\ handle[c].submits = 1) =>
                (ret[c].code = S3_E_CURL /\ ret[c] = hist[c].wrote))

\* one drain has failed to register the first request of the list, marked it
\* done, and registered the second, which is now the only one in flight
C25_Witness ==
    \E c, d \in Callers :
        /\ wpc = "perform"
        /\ reg_log = Requests(<<c, d>>)
        /\ hist[c].doneBy = "flush" /\ req[c].done /\ req[c].code = S3_E_CURL
        /\ multi[c].st = "none"
        /\ multi[d].st = "active" /\ ~req[d].done
        /\ running = 1


IsPrefix(a, b) == Len(a) <= Len(b) /\ \A i \in 1..Len(a) : a[i] = b[i]

\* C26: the pending list is FIFO: the worker takes the requests off in
\* exactly the order they were appended, each exactly once (what was appended
\* is what was taken off followed by what is still on the list), and after
\* every drain the list is empty with head and tail both NULL.
C26_Theorem ==
    /\ [](/\ enq_log = reg_log \o Requests(ListFrom(pending_head, req))
          /\ IsPrefix(reg_log, enq_log)
          /\ \A i, j \in 1..Len(reg_log) : reg_log[i] = reg_log[j] => i = j
          /\ pending_head = NULL <=> pending_tail = NULL
          /\ pending_tail # NULL =>
                (/\ req[pending_tail].next = NULL
                 /\ <<pending_tail, calls[pending_tail]>>
                       = enq_log[Len(enq_log)]))
    /\ [][(wpc = "locked" /\ wpc' = "perform") =>
            /\ pending_head' = NULL
            /\ pending_tail' = NULL
            /\ reg_log' = enq_log
            /\ \A c \in Callers : req'[c].next = NULL]_vars

\* two requests were appended, the second caller's first, and one drain took
\* both off in that order and left the list empty
C26_Witness ==
    /\ wpc = "perform"
    /\ enq_log = <<<<2, 1>>, <<1, 1>>>>
    /\ reg_log = <<<<2, 1>>, <<1, 1>>>>
    /\ pending_head = NULL /\ pending_tail = NULL
    /\ hist[1].dequeued /\ hist[2].dequeued
    /\ cpc[1] = "wait" /\ cpc[2] = "wait"
    /\ nMarked = 0
    /\ running + Cardinality({c \in Callers : hist[c].doneBy = "flush"}) = 2


(* ===================== claims: get_fd with a limit ====================== *)

\* every pwrite of the log wrote all it was asked to
C27_FileTakesAll ==
    \A i \in DOMAIN io_log :
        \A j \in DOMAIN io_log[i].sys : io_log[i].sys[j].rc = io_log[i].sys[j].cnt

C28_Original ==
    /\ (f_n > 0 /\ f_ret = S3_E_OK) => f_path[2] \in {"transfer", "parse"}
    /\ (f_n > 0 /\ f_path[2] = "coio_failed") =>
          (f_ret # S3_E_OK /\ f_err.code # S3_E_OK)


(* ================ claims: the two backends side by side ================= *)

\* what the backend that did not handle the request of m_in would have
\* delivered for the same transport result and status
OtherBackend ==
    IF m_in.backend = "easy"
    THEN submit_result(process_done_publish(s3_multi_req_init(TRUE),
                                            process_done_derive(m_in.o)))
    ELSE s3_http_easy_perform(m_in.o)

\* C29 as stated: per request the sync and the multiplexed backend are
\* observationally equivalent: for the same transport result and HTTP status
\* they deliver the same kind and the same fields of the error record (code,
\* http_status, transport code, os errno), on success as well as on failure.
C29_Original ==
    m_out # NoRet =>
       /\ m_out.code = OtherBackend.code
       /\ m_out.err.code = OtherBackend.err.code
       /\ m_out.err.http_status = OtherBackend.err.http_status
       /\ m_out.err.curl_code = OtherBackend.err.curl_code
       /\ m_out.err.os_error = OtherBackend.err.os_error


(* ============ claims: what destroy finds on the pending list ============ *)

\* C30: when the worker thread has exited the pending list is empty and
\* stays empty, because every later submission finds stop set and is
\* rejected; so the loop of s3_http_multi_destroy over the pending list finds
\* no record, and destroy frees neither a completion record nor (through a
\* record) a prepared request that a caller still waits on or will free.
C30_Theorem ==
    /\ [](wpc = "exited" =>
            /\ stop
            /\ pending_head = NULL /\ pending_tail = NULL
            /\ \A c \in Callers : req[c].next = NULL)
    /\ [][wpc = "exited" =>
            /\ pending_head' = NULL /\ pending_tail' = NULL
            /\ nAccepted' = nAccepted
            /\ \A c \in Callers :
                 (cpc[c] = "locked" /\ cpc'[c] = "idle") =>
                    (ret'[c].code = S3_E_INTERNAL /\ ~hist'[c].accepted)]_vars
    /\ [][(dpc = "cleanup" /\ dpc' = "returned") =>
            /\ ListFrom(pending_head, req) = <<>>
            /\ req' = req]_vars

\* destroy has returned after the worker served one request; the record of a
\* caller that has not yet returned is still there, and a submission that
\* found stop set has been rejected
C30_Witness ==
    \E c, d \in Callers :
        /\ dpc = "returned" /\ wpc = "exited"
        /\ req[c].live /\ req[c].done /\ cpc[c] \in {"wait", "check", "copy"}
        /\ hist[c].doneBy = "harvest"
        /\ cpc[d] = "idle" /\ ret[d].code = S3_E_INTERNAL /\ calls[d] = 1
        /\ pending_head = NULL
====
